---- MODULE Spec2Model ----
(***************************************************************************)
(* Verification model of the rosbag annotator's alignment-and-serving      *)
(* engine: BagService.loadFile (topic classification, message scan,        *)
(* bootstrap, fixed-rate ZOH frame generation) and BagService.getFrameAt   *)
(* (bounded insertion-ordered frame cache, per-topic point lookups).       *)
(*                                                                         *)
(* Conventions.  A JavaScript value that may be null/undefined is a        *)
(* sequence of length 0 (absent) or 1 (present).  A Map or Record keyed by *)
(* topic is a function whose DOMAIN is the key set.  Arrays and number-    *)
(* keyed Maps filled at consecutive indices are sequences, so the element  *)
(* at JavaScript index i is at position i + 1.  The loop variable t of the *)
(* frame loop is a double stepping by 33.33; it is kept exactly, in        *)
(* hundredths of a millisecond (t100), which agrees with the double for    *)
(* the frame counts explored here (t is never within 0.01 of an integer or *)
(* of a half before its 50th step).                                        *)
(***************************************************************************)
EXTENDS Integers, Sequences, FiniteSets, TLC

VARIABLES
    bag,                 \* BagService.bag: <<>> or <<file>>
    cv,                  \* ImageProcessor.cv initialised
    timestamps,          \* BagService.timestamps
    topicMetadata,       \* BagService.topicMetadata: topic -> msgType
    historicalJointData, \* BagService.historicalJointData: frame -> (topic -> JointStateMsg)
    imageTopics,         \* BagService.imageTopics
    jointTopics,         \* BagService.jointTopics
    frameImageIndex,     \* BagService.frameImageIndex: frame -> (topic -> Time)
    frameCache,          \* BagService.frameCache, in insertion order: <<[key, frame], ...>>
    ld,                  \* loadFile invocations: position and local variables, and
                         \* (observation) how often the bootstrapping scan and the
                         \* frame loop have applied each message to the running maps
    calls,               \* getFrameAt invocations: position and local variables
    currentFrameIndex,   \* the playback driver's frame index (AnnotationPage state)
    displayedFrame,      \* the frame on display (AnnotationPage state): <<>> or <<frame>>
    delivered,           \* observation since the last reset: per frame index the
                         \* distinct frames getFrameAt returned for it, and whether
                         \* some index was materialized again after a first return
    overlaps,            \* observation: getFrameAt calls made while another was in flight
    refused,             \* observation: the indices outside [0, frame count) that a
                         \* probing caller asked for since the last reset
    console,             \* messages written by console.warn / console.error
    isFileLoaded,        \* AnnotationPage state
    isLoadingBag,        \* AnnotationPage state
    pageTimestamps,      \* AnnotationPage state `timestamps`: the array taken from
                         \* the service when a load resolved
    isPlaying,           \* AnnotationPage state
    subtasks,            \* AnnotationPage state: <<[id, start, end, quality, prompt], ...>>
    contacts,            \* AnnotationPage state: <<[id, start, end], ...>>
    selectedSubtaskId,   \* AnnotationPage state: <<>> or <<id>>
    selectedContactId,   \* AnnotationPage state: <<>> or <<id>>
    hoveredFrame,        \* AnnotationPage state hoveredFrame.index: <<>> or <<index>>
    pendingContactStart, \* AnnotationPage state: <<>> or <<index>>
    draggingState,       \* AnnotationPage state: <<>> or <<[type, id, edge]>>
    uiEvent              \* observation: the last input event the page handled (a
                         \* Space key, a right-click on the subtask track, a click
                         \* on a merge button, or any other)

vars == <<bag, cv, timestamps, topicMetadata, historicalJointData, imageTopics,
          jointTopics, frameImageIndex, frameCache, ld, calls, currentFrameIndex,
          displayedFrame, delivered, overlaps, refused, console, isFileLoaded,
          isLoadingBag, pageTimestamps, isPlaying, subtasks, contacts,
          selectedSubtaskId, selectedContactId, hoveredFrame, pendingContactStart,
          draggingState, uiEvent>>

serviceVars == <<bag, timestamps, topicMetadata, historicalJointData, imageTopics,
                 jointTopics, frameImageIndex, frameCache>>

driverVars == <<currentFrameIndex, displayedFrame, delivered, overlaps, refused>>

contactVars == <<pendingContactStart, draggingState>>

pageVars == <<isFileLoaded, isLoadingBag, pageTimestamps, isPlaying, subtasks, contacts,
              selectedSubtaskId, selectedContactId, hoveredFrame, contactVars, uiEvent>>

(***************************************************************************)
(* Bounds of the model.                                                    *)
(***************************************************************************)
MaxMsgs == 3      \* messages per enumerated bag file
MaxCalls == 3     \* getFrameAt invocations that may be in flight together
MaxOverlaps == 2  \* getFrameAt calls made while another one is in flight

Loaders == {1, 2}
Callers == 1..MaxCalls

(***************************************************************************)
(* Generic helpers.                                                        *)
(***************************************************************************)
Range(s) == {s[i] : i \in 1..Len(s)}

EmptyMap == [x \in {} |-> 0]

\* Mutant: every key refers to the one object that was stored last.
PutShared(f, k, v) == [x \in (DOMAIN f) \cup {k} |-> v]

Put(f, k, v) == [x \in (DOMAIN f) \cup {k} |-> IF x = k THEN v ELSE f[x]]

\* Math.round of the non-negative rational num / den (halves round up).
MathRound(num, den) == (2 * num + den) \div (2 * den)

\* timeToMs: sec * 1000 + Math.round(nsec / 1e6)
timeToMs(t) == t.sec * 1000 + MathRound(t.nsec, 1000000)

\* Mutant: a step of half the size (a 60 Hz timeline).
FrameStepHalved == 3333 \div 2

\* The frame loop's step of 33.33 ms, in hundredths of a millisecond.
FrameStep100 == 3333

\* Capacity of the frame cache.
CacheCapacity == 30

(***************************************************************************)
(* Topic names and Array.prototype.sort() on them (code-unit order).       *)
(***************************************************************************)
TopicOrder == <<"/cam", "/cam2", "/joint", "/joint2", "/tf">>

TopicRank(topic) == CHOOSE i \in 1..Len(TopicOrder) : TopicOrder[i] = topic

TopicLess(a, b) == TopicRank(a) < TopicRank(b)

InsertTopic(sorted, topic) ==
    LET k == Cardinality({i \in 1..Len(sorted) : ~TopicLess(topic, sorted[i])})
    IN  SubSeq(sorted, 1, k) \o <<topic>> \o SubSeq(sorted, k + 1, Len(sorted))

RECURSIVE SortTopics(_)
SortTopics(s) ==
    IF s = <<>> THEN <<>>
    ELSE InsertTopic(SortTopics(SubSeq(s, 1, Len(s) - 1)), s[Len(s)])

(***************************************************************************)
(* allMessages.sort((a, b) => a.timestamp - b.timestamp): a stable sort.   *)
(***************************************************************************)
InsertMessage(sorted, m) ==
    LET k == Cardinality({i \in 1..Len(sorted) : sorted[i].timestamp <= m.timestamp})
    IN  SubSeq(sorted, 1, k) \o <<m>> \o SubSeq(sorted, k + 1, Len(sorted))

RECURSIVE SortMessages(_)
SortMessages(s) ==
    IF s = <<>> THEN <<>>
    ELSE InsertMessage(SortMessages(SubSeq(s, 1, Len(s) - 1)), s[Len(s)])

(***************************************************************************)
(* The message source: a bag file.  conns are its connections in the order *)
(* of bag.connections.values(); msgs are its messages in the order the     *)
(* reader's messageIterator yields them (non-decreasing time); readable    *)
(* tells whether bag.open() succeeds.                                      *)
(***************************************************************************)
Conn(topic, type) == [topic |-> topic, type |-> type]

Time(sec, nsec) == [sec |-> sec, nsec |-> nsec]

TimeLE(a, b) == a.sec < b.sec \/ (a.sec = b.sec /\ a.nsec <= b.nsec)

BagMsg(topic, time, message) == [topic |-> topic, timestamp |-> time, message |-> message]

JointState(name, position) == [name |-> name, position |-> position]

RawImage(encoding, data) == [encoding |-> encoding, data |-> data]

\* A sensor_msgs/Image whose data array holds length bytes for a declared
\* width x height.
SizedImage(encoding, data, width, height, length) ==
    [encoding |-> encoding, data |-> data, width |-> width, height |-> height,
     length |-> length]

CompressedImage(format, data) == [format |-> format, data |-> data]

BagFile(conns, msgs) == [conns |-> conns, msgs |-> msgs, readable |-> TRUE]

\* Connection lists of the enumerated files (unsorted, with an ignored type).
ConnLists ==
    { <<Conn("/joint", "sensor_msgs/JointState"), Conn("/cam", "sensor_msgs/Image")>>,
      <<Conn("/tf", "tf2_msgs/TFMessage"), Conn("/joint2", "sensor_msgs/JointState"),
        Conn("/joint", "sensor_msgs/JointState"), Conn("/cam", "sensor_msgs/Image")>>,
      <<Conn("/joint", "sensor_msgs/JointState"), Conn("/cam2", "sensor_msgs/CompressedImage"),
        Conn("/cam", "sensor_msgs/Image")>>,
      <<Conn("/tf", "tf2_msgs/TFMessage")>> }

\* Source times of the enumerated messages: two that share a millisecond,
\* one between two frames, one that a frame time rounds up to.
TimePoints == <<Time(0, 0), Time(0, 400000), Time(0, 50000000), Time(0, 67000000)>>

JointPayloads == { JointState(<<>>, <<0, 0>>), JointState(<<"a">>, <<1>>) }

PayloadsOf(type, k) ==
    IF type = "sensor_msgs/JointState" THEN JointPayloads
    ELSE IF type = "sensor_msgs/Image" THEN { RawImage("rgb8", k) }
    ELSE IF type = "sensor_msgs/CompressedImage" THEN { CompressedImage("jpeg", k) }
    ELSE { [transforms |-> k] }

\* Messages a file with connections conns can hold.
MsgChoices(conns) ==
    UNION { { BagMsg(conns[i].topic, TimePoints[k], p) : p \in PayloadsOf(conns[i].type, k) }
            : i \in 1..Len(conns), k \in 1..Len(TimePoints) }

\* Message lists of n messages in non-decreasing source time.
MsgLists(conns, n) ==
    { msgs \in [1..n -> MsgChoices(conns)] :
        \A i \in 1..(n - 1) : TimeLE(msgs[i].timestamp, msgs[i + 1].timestamp) }

\* The scenario of the design document: /state at 0 and 50 ms, /cam at 0 and 40 ms.
ScenarioFile ==
    BagFile(<<Conn("/joint", "sensor_msgs/JointState"), Conn("/cam", "sensor_msgs/Image")>>,
            <<BagMsg("/joint", Time(0, 0), JointState(<<"x", "y", "z">>, <<0, 0, 0>>)),
              BagMsg("/cam", Time(0, 0), RawImage("rgb8", 0)),
              BagMsg("/cam", Time(0, 40000000), RawImage("rgb8", 40)),
              BagMsg("/joint", Time(0, 50000000), JointState(<<"x", "y", "z">>, <<1, 1, 1>>))>>)

\* A file whose header cannot be read.
UnreadableFile == [conns |-> <<>>, msgs |-> <<>>, readable |-> FALSE]

SpecialFiles == {ScenarioFile, UnreadableFile}

(***************************************************************************)
(* loadFile: classification of the connections (lines 1060-1077).          *)
(***************************************************************************)
\* Mutant: every type but JointState counts as an image type.
IsImageTypeLoose(type) == type # "sensor_msgs/JointState"

\* Mutant: compressed images are not recognised.
IsRawImageType(type) == type = "sensor_msgs/Image"

IsImageType(type) == type = "sensor_msgs/Image" \/ type = "sensor_msgs/CompressedImage"

IsJointType(type) == type = "sensor_msgs/JointState"

\* The topics pushed onto imageTopics / jointTopics, in connection order.
RECURSIVE PushImageTopics(_, _)
PushImageTopics(conns, acc) ==
    IF conns = <<>> THEN acc
    ELSE PushImageTopics(Tail(conns),
            IF IsImageType(Head(conns).type) THEN Append(acc, Head(conns).topic) ELSE acc)

RECURSIVE PushJointTopics(_, _)
PushJointTopics(conns, acc) ==
    IF conns = <<>> THEN acc
    ELSE PushJointTopics(Tail(conns),
            IF IsJointType(Head(conns).type) THEN Append(acc, Head(conns).topic) ELSE acc)

RECURSIVE AnalyzeMetadata(_, _)
AnalyzeMetadata(conns, meta) ==
    IF conns = <<>> THEN meta
    ELSE AnalyzeMetadata(Tail(conns),
            IF IsImageType(Head(conns).type) \/ IsJointType(Head(conns).type)
            THEN Put(meta, Head(conns).topic, Head(conns).type) ELSE meta)

(***************************************************************************)
(* loadFile: the messages read (lines 1085-1099).                          *)
(***************************************************************************)
LightMessage(msg, joints) ==
    [timestamp |-> timeToMs(msg.timestamp),
     originalTime |-> msg.timestamp,
     topic |-> msg.topic,
     data |-> IF msg.topic \in Range(joints) THEN <<msg.message>> ELSE <<>>]

\* Position of the next message of msgs after position pos on one of topics,
\* or 0 when the iterator is exhausted.
NextMatch(msgs, pos, topics) ==
    LET later == {i \in (pos + 1)..Len(msgs) : msgs[i].topic \in topics}
    IN  IF later = {} THEN 0 ELSE CHOOSE i \in later : \A j \in later : i <= j

(***************************************************************************)
(* loadFile: updating the running maps with one message (lines 1121-1125   *)
(* and 1158-1162).  run = [joints, images].                                *)
(***************************************************************************)
ApplyMessage(run, msg, joints) ==
    IF msg.topic \in Range(joints)
    THEN [run EXCEPT !.joints = Put(run.joints, msg.topic, msg.data)]
    ELSE [run EXCEPT !.images = Put(run.images, msg.topic, msg.originalTime)]

(***************************************************************************)
(* loadFile: the bootstrapping scan from message index i (0-based) with    *)
(* the topics seen so far (lines 1116-1134).  Yields firstFullStateTime    *)
(* (absent when the scan ends without all target topics seen),             *)
(* startMsgIndex and the running maps.                                     *)
(***************************************************************************)
\* Mutant: the scan stops at the first message, whatever has been seen.
BootstrapAtFirst(allMessages, i, seenTopics, run, targetTopics, joints) ==
    [firstFullStateTime |-> <<allMessages[1].timestamp>>, startMsgIndex |-> 0,
     run |-> ApplyMessage(run, allMessages[1], joints)]

RECURSIVE BootstrapScan(_, _, _, _, _, _)
BootstrapScan(allMessages, i, seenTopics, run, targetTopics, joints) ==
    IF i >= Len(allMessages)
    THEN [firstFullStateTime |-> <<>>, startMsgIndex |-> 0, run |-> run]
    ELSE LET msg == allMessages[i + 1]
             seen == seenTopics \cup {msg.topic}
             next == ApplyMessage(run, msg, joints)
             allReady == \A k \in 1..Len(targetTopics) : targetTopics[k] \in seen
         IN  IF allReady
             THEN [firstFullStateTime |-> <<msg.timestamp>>, startMsgIndex |-> i, run |-> next]
             ELSE BootstrapScan(allMessages, i + 1, seen, next, targetTopics, joints)

\* Mutant: the fallback starts at the last message's time.
FallbackAtLast(allMessages, scan) ==
    [scan EXCEPT !.firstFullStateTime = <<allMessages[Len(allMessages)].timestamp>>,
                 !.startMsgIndex = 0]

\* The fallback when the scan found no bootstrap point (lines 1136-1140).
FallbackStart(allMessages, scan) ==
    [scan EXCEPT !.firstFullStateTime = <<allMessages[1].timestamp>>, !.startMsgIndex = 0]

(***************************************************************************)
(* loadFile: the cursor loop of one frame (lines 1154-1165):               *)
(* while (msgCursor < length && allMessages[msgCursor].timestamp <= t).    *)
(* st = [msgCursor, run]; t100 is t in hundredths of a millisecond.        *)
(***************************************************************************)
\* Mutant: the cursor stops at a message stamped exactly t.
CursorTestStrict(msg, t100) == msg.timestamp * 100 < t100

CursorTest(msg, t100) == msg.timestamp * 100 <= t100

\* Mutant: the cursor goes back to the first message and applies nothing.
CursorReset(allMessages, st, t100, joints) == [st EXCEPT !.msgCursor = 0]

RECURSIVE AdvanceCursor(_, _, _, _)
AdvanceCursor(allMessages, st, t100, joints) ==
    IF st.msgCursor < Len(allMessages) /\ CursorTest(allMessages[st.msgCursor + 1], t100)
    THEN AdvanceCursor(allMessages,
                       [msgCursor |-> st.msgCursor + 1,
                        run |-> ApplyMessage(st.run, allMessages[st.msgCursor + 1], joints)],
                       t100, joints)
    ELSE st

\* The number of messages the bootstrapping scan has applied to the running
\* maps: up to and including the one it stops at, or all of them.
ScanLength(allMessages, scan) ==
    IF scan.firstFullStateTime = <<>> THEN Len(allMessages) ELSE scan.startMsgIndex + 1

\* frameTime = Math.round(t) (line 1149)
FrameTime(t100) == MathRound(t100, 100)

\* Mutant: the loop ends before a frame at exactly endTime.
LoopTestStrict(t100, endTime) == t100 < endTime * 100

\* The loop test t <= endTime (line 1148).
LoopTest(t100, endTime) == t100 <= endTime * 100

(***************************************************************************)
(* snapshotJointData (lines 1180-1202): the record stored for a frame.     *)
(***************************************************************************)
GeneratedNames(len) == [k \in 1..len |-> "joint" \o ToString(k)]

SnapshotMsg(rawMsg) ==
    IF Len(rawMsg.name) = 0
    THEN [rawMsg EXCEPT !.name = GeneratedNames(Len(rawMsg.position))]
    ELSE rawMsg

snapshotJointData(joints, currentJoints) ==
    [topic \in {x \in Range(joints) : x \in DOMAIN currentJoints /\ currentJoints[x] # <<>>}
        |-> SnapshotMsg(currentJoints[topic][1])]

(***************************************************************************)
(* State after construction of BagService and ImageProcessor.              *)
(***************************************************************************)
EmptyRun == [joints |-> EmptyMap, images |-> EmptyMap]

IdleLoader ==
    [pc |-> "idle", file |-> <<>>, iter |-> <<>>, iterPos |-> 0,
     targetTopics |-> <<>>, allMessages |-> <<>>, firstFullStateTime |-> <<>>,
     endTime |-> 0, t100 |-> 0, msgCursor |-> 0, run |-> EmptyRun,
     scanned |-> <<>>, applied |-> <<>>]

NothingDelivered == [frames |-> EmptyMap, rebuilt |-> FALSE]

IdleCall ==
    [pc |-> "idle", index |-> 0, frameData |-> <<>>, iter |-> <<>>, pending |-> EmptyMap]

Init ==
    /\ bag = <<>>
    /\ cv = FALSE
    /\ timestamps = <<>>
    /\ topicMetadata = EmptyMap
    /\ historicalJointData = EmptyMap
    /\ imageTopics = <<>>
    /\ jointTopics = <<>>
    /\ frameImageIndex = EmptyMap
    /\ frameCache = <<>>
    /\ ld = [l \in Loaders |-> IdleLoader]
    /\ calls = [c \in Callers |-> IdleCall]
    /\ currentFrameIndex = 0
    /\ displayedFrame = <<>>
    /\ delivered = NothingDelivered
    /\ overlaps = 0
    /\ refused = {}
    /\ console = {}
    /\ isFileLoaded = FALSE
    /\ isLoadingBag = FALSE
    /\ pageTimestamps = <<>>
    /\ isPlaying = FALSE
    /\ subtasks = <<>>
    /\ contacts = <<>>
    /\ selectedSubtaskId = <<>>
    /\ selectedContactId = <<>>
    /\ hoveredFrame = <<>>
    /\ pendingContactStart = <<>>
    /\ draggingState = <<>>
    /\ uiEvent = "none"

\* Mutant: the frame loop yields to other callbacks between two frames.
FrameLoopYields == TRUE

\* No loadFile invocation is inside its synchronous bootstrap-and-frames
\* section; other callbacks run only then.
NoSyncSection == \A l \in Loaders : ld[l].pc # "frames"

(***************************************************************************)
(* loadFile (lines 1047-1178), one action per stretch between awaits; the  *)
(* frame loop is stepped one iteration at a time with everything else      *)
(* held off.                                                               *)
(***************************************************************************)
\* new Bag(new BrowserFile(file)) (lines 1054-1055): the Bag object made by
\* invocation l, not yet opened.
NewBag(file, l) ==
    [conns |-> file.conns, msgs |-> file.msgs, readable |-> file.readable,
     object |-> l, opened |-> FALSE]

\* this.bag after the open() of invocation l's Bag object has resolved:
\* opened if it still is that object, untouched if a later invocation has
\* replaced it.
BagAfterOpen(b, l) ==
    IF b # <<>> /\ b[1].object = l THEN <<[b[1] EXCEPT !.opened = TRUE]>> ELSE b

\* this.bag.connections: empty until the object has been opened.
Connections(b) == IF b[1].opened THEN b[1].conns ELSE <<>>

\* Call of loadFile(file): up to `await this.imageProcessor.init()`.
loadFile(l, file) ==
    /\ NoSyncSection
    /\ ld[l].pc \in {"idle", "done", "rejected"}
    /\ ld' = [ld EXCEPT ![l] = [IdleLoader EXCEPT !.pc = "init", !.file = <<file>>]]
    /\ UNCHANGED <<serviceVars, cv, calls, driverVars, console>>

\* init() resolved: reset() (lines 1204-1213), this.bag = new Bag(...), up
\* to `await this.bag.open()`.
LoadReset(l) ==
    /\ NoSyncSection
    /\ ld[l].pc = "init"
    /\ cv' = TRUE
    /\ frameCache' = <<>>
    /\ timestamps' = <<>>
    /\ topicMetadata' = EmptyMap
    /\ historicalJointData' = EmptyMap
    /\ frameImageIndex' = EmptyMap
    /\ imageTopics' = <<>>
    /\ jointTopics' = <<>>
    /\ bag' = <<NewBag(ld[l].file[1], l)>>
    /\ ld' = [ld EXCEPT ![l].pc = "open"]
    /\ delivered' = NothingDelivered
    /\ refused' = {}
    /\ UNCHANGED <<calls, currentFrameIndex, displayedFrame, overlaps, console, pageVars>>

\* bag.open() rejects: caught, logged and rethrown (lines 1174-1177).
LoadOpenFail(l) ==
    /\ NoSyncSection
    /\ ld[l].pc = "open"
    /\ ~ld[l].file[1].readable
    /\ ld' = [ld EXCEPT ![l].pc = "rejected"]
    /\ console' = console \cup {"Error in loadFile"}
    /\ UNCHANGED <<serviceVars, cv, calls, driverVars, pageVars>>

\* bag.open() resolved: 1. Analyze Topics, up to the first await of the
\* message iterator; throws when there is no target topic.
LoadAnalyze(l) ==
    /\ NoSyncSection
    /\ ld[l].pc = "open"
    /\ ld[l].file[1].readable
    /\ bag # <<>>
    /\ bag' = BagAfterOpen(bag, l)
    /\ LET conns == Connections(bag')
           images == SortTopics(PushImageTopics(conns, imageTopics))
           joints == SortTopics(PushJointTopics(conns, jointTopics))
           targetTopics == images \o joints
       IN  /\ topicMetadata' = AnalyzeMetadata(conns, topicMetadata)
           /\ imageTopics' = images
           /\ jointTopics' = joints
           /\ IF targetTopics = <<>>
              THEN /\ ld' = [ld EXCEPT ![l].pc = "rejected"]
                   /\ console' = console \cup {"Error in loadFile"}
              ELSE /\ ld' = [ld EXCEPT ![l].pc = "read", ![l].targetTopics = targetTopics,
                                       ![l].iter = bag', ![l].iterPos = 0]
                   /\ console' = console
    /\ UNCHANGED <<cv, timestamps, historicalJointData, frameImageIndex, frameCache, calls,
                   driverVars, pageVars>>

\* One turn of `for await (const msg of messageIterator({topics}))`.
LoadReadMsg(l) ==
    /\ NoSyncSection
    /\ ld[l].pc = "read"
    /\ LET msgs == ld[l].iter[1].msgs
           pos == NextMatch(msgs, ld[l].iterPos, Range(ld[l].targetTopics))
       IN  /\ pos # 0
           /\ ld' = [ld EXCEPT ![l].iterPos = pos,
                               ![l].allMessages = Append(@, LightMessage(msgs[pos], jointTopics))]
    /\ UNCHANGED <<serviceVars, cv, calls, driverVars, pageVars, console>>

\* The iterator is exhausted with no message read: throws.
LoadNoMessages(l) ==
    /\ NoSyncSection
    /\ ld[l].pc = "read"
    /\ NextMatch(ld[l].iter[1].msgs, ld[l].iterPos, Range(ld[l].targetTopics)) = 0
    /\ ld[l].allMessages = <<>>
    /\ ld' = [ld EXCEPT ![l].pc = "rejected"]
    /\ console' = console \cup {"Error in loadFile"}
    /\ UNCHANGED <<serviceVars, cv, calls, driverVars, pageVars>>

\* The iterator is exhausted: sort, 3. Bootstrapping, and the set-up of the
\* frame loop (lines 1101-1148).
LoadBootstrap(l) ==
    /\ NoSyncSection
    /\ ld[l].pc = "read"
    /\ NextMatch(ld[l].iter[1].msgs, ld[l].iterPos, Range(ld[l].targetTopics)) = 0
    /\ ld[l].allMessages # <<>>
    /\ LET allMessages == SortMessages(ld[l].allMessages)
           scan == BootstrapScan(allMessages, 0, {}, EmptyRun, ld[l].targetTopics, jointTopics)
           incomplete == scan.firstFullStateTime = <<>>
           start == IF incomplete THEN FallbackStart(allMessages, scan) ELSE scan
       IN  /\ ld' = [ld EXCEPT ![l].pc = "frames",
                               ![l].allMessages = allMessages,
                               ![l].firstFullStateTime = start.firstFullStateTime,
                               ![l].endTime = allMessages[Len(allMessages)].timestamp,
                               ![l].msgCursor = start.startMsgIndex,
                               ![l].run = start.run,
                               ![l].t100 = start.firstFullStateTime[1] * 100,
                               ![l].scanned = [k \in 1..Len(allMessages) |->
                                   IF k <= ScanLength(allMessages, scan) THEN 1 ELSE 0],
                               ![l].applied = [k \in 1..Len(allMessages) |-> 0]]
           /\ console' = IF incomplete THEN console \cup {"Incomplete bag"} ELSE console
    /\ UNCHANGED <<serviceVars, cv, calls, driverVars, pageVars>>

\* One iteration of the frame loop (lines 1148-1169).
LoadGenFrame(l) ==
    /\ ld[l].pc = "frames"
    /\ LoopTest(ld[l].t100, ld[l].endTime)
    /\ LET frameIdx == Len(timestamps)
           st == AdvanceCursor(ld[l].allMessages,
                               [msgCursor |-> ld[l].msgCursor, run |-> ld[l].run],
                               ld[l].t100, jointTopics)
       IN  /\ timestamps' = Append(timestamps, FrameTime(ld[l].t100))
           /\ historicalJointData' =
                 Put(historicalJointData, frameIdx, snapshotJointData(jointTopics, st.run.joints))
           /\ frameImageIndex' = Put(frameImageIndex, frameIdx, st.run.images)
           /\ ld' = [ld EXCEPT ![l].msgCursor = st.msgCursor, ![l].run = st.run,
                               ![l].t100 = @ + FrameStep100,
                               ![l].applied = [k \in DOMAIN @ |->
                                   IF ld[l].msgCursor < k /\ k <= st.msgCursor
                                   THEN @[k] + 1 ELSE @[k]]]
    /\ UNCHANGED <<bag, topicMetadata, imageTopics, jointTopics, frameCache, cv, calls,
                   driverVars, pageVars, console>>

\* The frame loop ends and loadFile resolves.
LoadFinish(l) ==
    /\ ld[l].pc = "frames"
    /\ ~LoopTest(ld[l].t100, ld[l].endTime)
    /\ ld' = [ld EXCEPT ![l].pc = "done"]
    /\ UNCHANGED <<serviceVars, cv, calls, driverVars, pageVars, console>>

LoadStep(l) ==
    \/ LoadReset(l)
    \/ LoadOpenFail(l)
    \/ LoadAnalyze(l)
    \/ LoadReadMsg(l)
    \/ LoadNoMessages(l)
    \/ LoadBootstrap(l)
    \/ LoadGenFrame(l)
    \/ LoadFinish(l)

(***************************************************************************)
(* Timeline specification: one loadFile of any enumerated file.            *)
(***************************************************************************)
\* The consumer calls loadFile with one of files.
LoadCall(l, files) ==
    /\ ld[l].pc = "idle"
    /\ \E file \in files : loadFile(l, file)
    /\ UNCHANGED pageVars

\* The consumer calls loadFile with any file of at most MaxMsgs messages.
LoadSmallFile(l) ==
    /\ ld[l].pc = "idle"
    /\ \E conns \in ConnLists : \E n \in 0..MaxMsgs : \E msgs \in MsgLists(conns, n) :
          loadFile(l, BagFile(conns, msgs))
    /\ UNCHANGED pageVars

Next ==
    \/ LoadSmallFile(1)
    \/ LoadCall(1, SpecialFiles)
    \/ LoadStep(1)

Spec == Init /\ [][Next]_vars

(***************************************************************************)
(* Reference notions for the timeline properties, stated on the file that  *)
(* was loaded and independent of the scan: the target messages in read     *)
(* order, the latest message of a topic at or before a millisecond time in *)
(* stable timestamp order, and the bootstrap time.                         *)
(***************************************************************************)
LoadedFile == ld[1].file[1]

LoadDone == ld[1].pc = "done"

TargetSet(file) ==
    {file.conns[i].topic : i \in {j \in 1..Len(file.conns) :
        IsImageType(file.conns[j].type) \/ IsJointType(file.conns[j].type)}}

JointSet(file) ==
    {file.conns[i].topic : i \in {j \in 1..Len(file.conns) : IsJointType(file.conns[j].type)}}

ImageSet(file) ==
    {file.conns[i].topic : i \in {j \in 1..Len(file.conns) : IsImageType(file.conns[j].type)}}

TargetIdx(file) == {i \in 1..Len(file.msgs) : file.msgs[i].topic \in TargetSet(file)}

MsOf(file, i) == timeToMs(file.msgs[i].timestamp)

\* i comes no later than j in stable timestamp order.
StableLE(file, i, j) == MsOf(file, i) < MsOf(file, j) \/ (MsOf(file, i) = MsOf(file, j) /\ i <= j)

\* Position in file.msgs of the latest message on topic with timestamp <= ms,
\* or 0 when there is none.
LatestIdx(file, topic, ms) ==
    LET cand == {i \in TargetIdx(file) : file.msgs[i].topic = topic /\ MsOf(file, i) <= ms}
    IN  IF cand = {} THEN 0 ELSE CHOOSE i \in cand : \A j \in cand : StableLE(file, j, i)

FirstMs(file) == CHOOSE m \in {MsOf(file, i) : i \in TargetIdx(file)} :
                    \A i \in TargetIdx(file) : m <= MsOf(file, i)

LastMs(file) == CHOOSE m \in {MsOf(file, i) : i \in TargetIdx(file)} :
                    \A i \in TargetIdx(file) : MsOf(file, i) <= m

FirstMsOn(file, topic) ==
    CHOOSE m \in {MsOf(file, i) : i \in {j \in TargetIdx(file) : file.msgs[j].topic = topic}} :
        \A i \in TargetIdx(file) : file.msgs[i].topic = topic => m <= MsOf(file, i)

\* Every target topic carries at least one message.
FullCoverage(file) ==
    \A topic \in TargetSet(file) : \E i \in TargetIdx(file) : file.msgs[i].topic = topic

\* The earliest time at which every target topic has been observed.
CoverageMs(file) ==
    CHOOSE m \in {FirstMsOn(file, topic) : topic \in TargetSet(file)} :
        \A topic \in TargetSet(file) : FirstMsOn(file, topic) <= m

BootstrapMs(file) == IF FullCoverage(file) THEN CoverageMs(file) ELSE FirstMs(file)

FrameIdxs == 0..(Len(timestamps) - 1)

\* The fixed step the design names, 33.33 ms, in hundredths of a millisecond.
NominalStep100 == 3333

Abs(x) == IF x < 0 THEN -x ELSE x

(***************************************************************************)
(* C1 (as claimed): after a successful load, every frame holds for every   *)
(* state topic the payload (as snapshotJointData records it) of the latest *)
(* message on that topic whose timestamp is <= the frame's stored, rounded *)
(* timestamp.  Stated here for loads in which every target topic carries a *)
(* message.  Fails: the cursor loop compares against the unrounded t, so a *)
(* message stamped exactly at a rounded-up frame time is left out.         *)
(***************************************************************************)
C1_ZohAtStoredTimestamp ==
    (LoadDone /\ FullCoverage(LoadedFile)) =>
        \A i \in FrameIdxs : \A topic \in JointSet(LoadedFile) :
            LET k == LatestIdx(LoadedFile, topic, timestamps[i + 1])
            IN  k # 0 =>
                  /\ topic \in DOMAIN historicalJointData[i]
                  /\ historicalJointData[i][topic] = SnapshotMsg(LoadedFile.msgs[k].message)

(***************************************************************************)
(* C2: after a successful load with at least one state topic and one event *)
(* topic, the number of frames is floor((lastTs - bootstrapTs) / 33.33) + 1.*)
(***************************************************************************)
C2_FrameCount ==
    (LoadDone /\ JointSet(LoadedFile) # {} /\ ImageSet(LoadedFile) # {}) =>
        Len(timestamps) =
            ((LastMs(LoadedFile) - BootstrapMs(LoadedFile)) * 100) \div NominalStep100 + 1

\* A finished load with a state and an event topic and more than one frame.
C2_Witness ==
    /\ LoadDone /\ JointSet(LoadedFile) # {} /\ ImageSet(LoadedFile) # {}
    /\ Len(timestamps) = 3

(***************************************************************************)
(* C3: after a successful load, frame 0 is at the bootstrap time, frame    *)
(* timestamps never decrease, and consecutive timestamps differ from the   *)
(* 33.33 ms step by at most 1 ms.                                          *)
(***************************************************************************)
C3_FrameTimestamps ==
    LoadDone =>
        /\ timestamps[1] = BootstrapMs(LoadedFile)
        /\ \A i \in 1..(Len(timestamps) - 1) :
              /\ timestamps[i] <= timestamps[i + 1]
              /\ Abs((timestamps[i + 1] - timestamps[i]) * 100 - NominalStep100) <= 100

\* A finished load whose frames show both spacings, 33 and 34 ms.
C3_Witness ==
    /\ LoadDone
    /\ Len(timestamps) >= 3
    /\ timestamps[2] - timestamps[1] = 33
    /\ timestamps[3] - timestamps[2] = 34

(***************************************************************************)
(* C4: when every target topic carries a message, the bootstrap time is    *)
(* the earliest time at which every target topic has been observed (the    *)
(* maximum over the target topics of the topic's first timestamp), and     *)
(* frame 0 reflects every message with timestamp <= that time.             *)
(***************************************************************************)
C4_BootstrapTime ==
    (LoadDone /\ FullCoverage(LoadedFile)) =>
        LET boot == CoverageMs(LoadedFile)
        IN  /\ ld[1].firstFullStateTime = <<boot>>
            /\ timestamps[1] = boot
            /\ DOMAIN historicalJointData[0] = JointSet(LoadedFile)
            /\ \A topic \in JointSet(LoadedFile) :
                  historicalJointData[0][topic] =
                      SnapshotMsg(LoadedFile.msgs[LatestIdx(LoadedFile, topic, boot)].message)
            /\ DOMAIN frameImageIndex[0] = ImageSet(LoadedFile)
            /\ \A topic \in ImageSet(LoadedFile) :
                  frameImageIndex[0][topic] =
                      LoadedFile.msgs[LatestIdx(LoadedFile, topic, boot)].timestamp

\* A finished load with full coverage in which a message that follows the
\* bootstrap message shares its millisecond and a later bootstrap time than
\* the first message's.
C4_Witness ==
    /\ LoadDone /\ FullCoverage(LoadedFile)
    /\ ld[1].msgCursor > 0
    /\ \E i \in 1..Len(ld[1].allMessages) :
          /\ i > 1
          /\ ld[1].allMessages[i].timestamp = timestamps[1]
          /\ ld[1].allMessages[i - 1].timestamp = timestamps[1]
          /\ ld[1].allMessages[i].topic = ld[1].allMessages[i - 1].topic

(***************************************************************************)
(* C5: when some target topic never appears in a non-empty message stream, *)
(* loadFile does not reject, frame 0 is at the first sorted message's      *)
(* timestamp, and the degraded condition is recorded (the warning          *)
(* "Incomplete bag" on the console).                                       *)
(***************************************************************************)
DegradedCase ==
    /\ ld[1].file # <<>>
    /\ LoadedFile.readable
    /\ TargetIdx(LoadedFile) # {}
    /\ ~FullCoverage(LoadedFile)

C5_DegradedBootstrap ==
    DegradedCase =>
        /\ ld[1].pc # "rejected"
        /\ ld[1].pc \in {"frames", "done"} =>
              /\ ld[1].firstFullStateTime = <<ld[1].allMessages[1].timestamp>>
              /\ ld[1].allMessages[1].timestamp = FirstMs(LoadedFile)
              /\ "Incomplete bag" \in console
        /\ LoadDone => timestamps[1] = FirstMs(LoadedFile)

\* A finished degraded load.
C5_Witness ==
    /\ DegradedCase /\ LoadDone
    /\ Len(timestamps) >= 2
    /\ "Incomplete bag" \in console

(***************************************************************************)
(* C6 (as claimed): in every load, degraded or not, no frame's event       *)
(* pointer lies in the future: its millisecond timestamp is <= the frame's *)
(* time.  Fails in a degraded load: the bootstrap scan runs to the end of  *)
(* the stream and leaves the last event time of every topic in the running*)
(* map that frame 0 is snapshotted from.                                   *)
(***************************************************************************)
C6_NoFuturePointer ==
    LoadDone =>
        \A i \in FrameIdxs : \A topic \in DOMAIN frameImageIndex[i] :
            timeToMs(frameImageIndex[i][topic]) <= timestamps[i + 1]

(***************************************************************************)
(* C7 (as claimed): loading the scenario file gives bootstrap 0 and three  *)
(* frames: frame 0 at 0 with state [0,0,0] and image pointer t0, frame 1   *)
(* at ~33 with state [0,0,0] and pointer t0, frame 2 at ~66 with state     *)
(* [1,1,1] and pointer t40.  Fails: the last message is at 50 ms, so the   *)
(* loop ends before t = 66.66 and there is no frame 2.                     *)
(***************************************************************************)
ScenarioDone == LoadDone /\ LoadedFile = ScenarioFile

ScenarioFrame(i, ms, position, pointer) ==
    /\ Len(timestamps) > i
    /\ Abs(timestamps[i + 1] - ms) <= 1
    /\ "/joint" \in DOMAIN historicalJointData[i]
    /\ historicalJointData[i]["/joint"].position = position
    /\ "/cam" \in DOMAIN frameImageIndex[i]
    /\ frameImageIndex[i]["/cam"] = pointer

C7_ScenarioAsClaimed ==
    ScenarioDone =>
        /\ ld[1].firstFullStateTime = <<0>>
        /\ ScenarioFrame(0, 0, <<0, 0, 0>>, Time(0, 0))
        /\ ScenarioFrame(1, 33, <<0, 0, 0>>, Time(0, 0))
        /\ ScenarioFrame(2, 66, <<1, 1, 1>>, Time(0, 40000000))

(***************************************************************************)
(* C7 (amended): loading the scenario file gives bootstrap 0 and exactly   *)
(* two frames: frame 0 at 0 and frame 1 at 33, both with state [0,0,0] and *)
(* image pointer t0; there is no frame 2.                                  *)
(***************************************************************************)
C7_ScenarioTwoFrames ==
    ScenarioDone =>
        /\ ld[1].firstFullStateTime = <<0>>
        /\ timestamps = <<0, 33>>
        /\ ScenarioFrame(0, 0, <<0, 0, 0>>, Time(0, 0))
        /\ ScenarioFrame(1, 33, <<0, 0, 0>>, Time(0, 0))
        /\ DOMAIN historicalJointData = {0, 1}
        /\ DOMAIN frameImageIndex = {0, 1}

\* The scenario file has been loaded.
C7_Witness == ScenarioDone /\ Len(timestamps) = 2

(***************************************************************************)
(* getFrameAt (lines 1219-1270): the frame cache, a Map in insertion       *)
(* order, as a sequence of [key, frame].                                   *)
(***************************************************************************)
CacheKeys(cache) == [i \in 1..Len(cache) |-> cache[i].key]

\* Mutant: an entry whose frame lacks an image of its event-pointer map does
\* not count as present.
CacheHasWhole(cache, key) ==
    \E i \in 1..Len(cache) :
        /\ cache[i].key = key
        /\ cache[i].frame.index \in DOMAIN frameImageIndex
        /\ DOMAIN cache[i].frame.images = DOMAIN frameImageIndex[cache[i].frame.index]

CacheHas(cache, key) == \E i \in 1..Len(cache) : cache[i].key = key

\* Mutant: the oldest entry is returned whatever the key.
CacheGetFirst(cache, key) == cache[1].frame

CacheGet(cache, key) == cache[CHOOSE i \in 1..Len(cache) : cache[i].key = key].frame

\* Map.set: a present key keeps its place, a new key goes last.
CacheSet(cache, key, frame) ==
    IF CacheHas(cache, key)
    THEN [i \in 1..Len(cache) |->
            IF cache[i].key = key THEN [key |-> key, frame |-> frame] ELSE cache[i]]
    ELSE Append(cache, [key |-> key, frame |-> frame])

\* Mutant: the capacity test is off by one.
OverCapacityLate(size) == size > CacheCapacity + 1

\* this.frameCache.size > 30 (line 1264)
OverCapacity(size) == size > CacheCapacity

\* Deleting keys().next().value, the first key in insertion order.
CacheEvict(cache) == IF OverCapacity(Len(cache)) /\ cache # <<>> THEN Tail(cache) ELSE cache

\* Mutant: a hit moves the entry to the end of the order (LRU promotion).
PromoteOnHit(cache, key) ==
    LET i == CHOOSE j \in 1..Len(cache) : cache[j].key = key
    IN  SubSeq(cache, 1, i - 1) \o SubSeq(cache, i + 1, Len(cache)) \o <<cache[i]>>

\* The cache after a hit on key: the hit path only reads (line 1223).
CacheAfterHit(cache, key) == cache

\* targetTs = this.timestamps[index] (line 1222), the cache key; -1 stands
\* for the undefined that an index outside the array yields.
TargetTs(index) == IF index + 1 \in DOMAIN timestamps THEN timestamps[index + 1] ELSE -1

\* Mutant: the guard without its lower bound.
InRangeNoLower(index) == bag # <<>> /\ index < Len(timestamps)

\* The range guard (line 1220).
InRange(index) == bag # <<>> /\ index >= 0 /\ index < Len(timestamps)

\* frameData as created on a miss (lines 1225-1230).
NewFrameData(index) ==
    [timestamp |-> TargetTs(index),
     index |-> index,
     images |-> EmptyMap,
     jointStateMap |-> IF index \in DOMAIN historicalJointData
                       THEN historicalJointData[index] ELSE EmptyMap]

(***************************************************************************)
(* The point lookup of one topic (lines 1235-1258) and the decoders.  A    *)
(* decoded image is identified by how it was produced and what from; the   *)
(* handle (object URL) that names it is left out.                          *)
(***************************************************************************)
\* messageIterator({topics: [topic], start}): the first message on topic at
\* or after start, or 0.
LookupFirst(msgs, topic, start) ==
    LET later == {i \in 1..Len(msgs) : msgs[i].topic = topic /\ TimeLE(start, msgs[i].timestamp)}
    IN  IF later = {} THEN 0 ELSE CHOOSE i \in later : \A j \in later : i <= j

SupportedEncodings == {"16UC1", "bgr8", "rgb8", "mono8"}

\* Bytes per pixel of the Mat a decoder allocates (CV_16UC1, CV_8UC3, CV_8UC1).
BytesPerPixel(encoding) ==
    IF encoding = "16UC1" THEN 2 ELSE IF encoding = "mono8" THEN 1 ELSE 3

\* src.data.set(data) (lines 1638, 1664, 1676, 1688) throws a RangeError when
\* data is longer than the Mat of height x width pixels; a message without
\* stated sizes fills its Mat exactly.
DecodeThrows(msg) ==
    "length" \in DOMAIN msg
        /\ msg.length > msg.height * msg.width * BytesPerPixel(msg.encoding)

(***************************************************************************)
(* processDepthImage (lines 1628-1658): the 16-bit pixels are read from    *)
(* the bytes, scaled by alpha = 255 / max(maxVal - minVal, 1e-6) and       *)
(* shifted by beta = -minVal * alpha, rounded and saturated to 8 bits.     *)
(* alpha is kept as the fraction AlphaNum / AlphaDen.  The colour map and  *)
(* the canvas that follow are a fixed table per intensity and are left     *)
(* out: the decoded image is identified by its intensities.                *)
(***************************************************************************)
\* mat16.data.set(data): pixel i of the CV_16UC1 Mat from bytes 2i-1 and 2i,
\* low byte first.
Pixels16(data, width, height) ==
    [i \in 1..(width * height) |-> data[2 * i - 1] + 256 * data[2 * i]]

\* minMaxLoc(matF32).
MinVal(pixels) == CHOOSE v \in Range(pixels) : \A w \in Range(pixels) : v <= w

MaxVal(pixels) == CHOOSE v \in Range(pixels) : \A w \in Range(pixels) : v >= w

\* 255.0 / Math.max(maxVal - minVal, 1e-6) as a fraction.
AlphaNum(minVal, maxVal) == IF maxVal - minVal >= 1 THEN 255 ELSE 255 * 1000000

AlphaDen(minVal, maxVal) == IF maxVal - minVal >= 1 THEN maxVal - minVal ELSE 1

\* n / d (d > 0) rounded to the nearest integer, halves to the even one.
RoundHalfEven(n, d) ==
    LET f == n \div d
        r == n % d
    IN  IF 2 * r < d THEN f
        ELSE IF 2 * r > d THEN f + 1
        ELSE IF f % 2 = 0 THEN f ELSE f + 1

\* saturate_cast<uchar>.
SaturateU8(x) == IF x < 0 THEN 0 ELSE IF x > 255 THEN 255 ELSE x

\* Mutant: an absolute scale, 0 for raw value 0 and 255 for 65535.
DepthAbsolute(data, width, height) ==
    LET pixels == Pixels16(data, width, height)
    IN  [i \in DOMAIN pixels |-> SaturateU8(RoundHalfEven(pixels[i] * 255, 65535))]

\* matF32.convertTo(normalized, CV_8U, alpha, beta): the intensities
\* v * alpha + beta, written (v - minVal) * alpha to stay within the
\* integers of the checker.
processDepthImage(data, width, height) ==
    LET pixels == Pixels16(data, width, height)
        minVal == MinVal(pixels)
        maxVal == MaxVal(pixels)
        num == AlphaNum(minVal, maxVal)
        den == AlphaDen(minVal, maxVal)
    IN  [i \in DOMAIN pixels |->
            SaturateU8(RoundHalfEven((pixels[i] - minVal) * num, den))]

\* Mutant: an encoding that is not recognised is decoded as mono8, and a
\* decoder that throws yields what it has.
processMessageAny(msg, cvReady) ==
    IF ~cvReady THEN <<>>
    ELSE IF "encoding" \notin DOMAIN msg THEN <<>>
    ELSE <<[kind |-> "canvas", encoding |-> msg.encoding, data |-> msg.data]>>

\* ImageProcessor.processMessage (lines 1602-1626): <<>> is null.
processMessage(msg, cvReady) ==
    IF ~cvReady THEN <<>>
    ELSE IF "encoding" \notin DOMAIN msg THEN <<>>
    ELSE IF msg.encoding \in SupportedEncodings
         THEN IF DecodeThrows(msg) THEN <<>>
              ELSE IF msg.encoding = "16UC1"
              THEN <<[kind |-> "canvas", encoding |-> msg.encoding, data |-> msg.data,
                      normalized |-> processDepthImage(msg.data, msg.width, msg.height)]>>
              ELSE <<[kind |-> "canvas", encoding |-> msg.encoding, data |-> msg.data]>>
         ELSE <<>>

\* msgAny.format?.includes('png') ? 'png' : 'jpeg'
BlobFormat(format) == IF format \in {"png", "bgr8; png compressed bgr8"} THEN "png" ELSE "jpeg"

\* Mutant: the first message at or after the pointer is used whatever its
\* timestamp.
LookupNearest(file, topic, exactTime, meta, cvReady) ==
    LET i == LookupFirst(file.msgs, topic, exactTime)
    IN  IF i = 0 THEN <<>>
        ELSE IF topic \notin DOMAIN meta THEN <<>>
        ELSE IF meta[topic] = "sensor_msgs/CompressedImage"
             THEN <<[kind |-> "blob", encoding |-> BlobFormat(file.msgs[i].message.format),
                     data |-> file.msgs[i].message.data]>>
             ELSE processMessage(file.msgs[i].message, cvReady)

\* The image attached for topic by one lookup, <<>> when none is attached:
\* no message, another timestamp, a throw (no metadata for the topic after a
\* reset) or a null from the decoder.
LookupImage(file, topic, exactTime, meta, cvReady) ==
    LET i == LookupFirst(file.msgs, topic, exactTime)
    IN  IF i = 0 THEN <<>>
        ELSE IF file.msgs[i].timestamp # exactTime THEN <<>>
        ELSE IF topic \notin DOMAIN meta THEN <<>>
        ELSE IF meta[topic] = "sensor_msgs/CompressedImage"
             THEN <<[kind |-> "blob", encoding |-> BlobFormat(file.msgs[i].message.format),
                     data |-> file.msgs[i].message.data]>>
             ELSE processMessage(file.msgs[i].message, cvReady)

\* Mutant: a lookup removes the pointer it has followed from the frame index.
PointersConsumed(pointers, index, topic) ==
    IF index \in DOMAIN pointers
    THEN [pointers EXCEPT ![index] = [x \in (DOMAIN @) \ {topic} |-> @[x]]]
    ELSE pointers

\* The frame index after the lookup of topic for frame index: the lookup
\* reads the entries of imageSnapshot (line 1235) and leaves the map as is.
PointersAfterLookup(pointers, index, topic) == pointers

\* Mutant: a failed lookup discards the images attached so far.
AttachOrDrop(images, topic, url) ==
    IF url = <<>> THEN EmptyMap ELSE Put(images, topic, url[1])

\* frameData.images[topic] = url, skipped when the lookup attached nothing
\* (lines 1249-1253; a throw is caught at line 1258).
Attach(images, topic, url) ==
    IF url = <<>> THEN images ELSE Put(images, topic, url[1])

(***************************************************************************)
(* getFrameAt, one action per stretch between awaits.  A call that returns *)
(* hands its result to the caller, fetchFrame (lines 245-248), in the same *)
(* step: a frame that is not null goes on display.                         *)
(***************************************************************************)
\* The caller of getFrameAt(index) receives frame (not null), built by this
\* call (a miss) or taken from the cache.
Deliver(index, frame, built) ==
    IF index \in DOMAIN delivered.frames
    THEN [frames |-> [delivered.frames EXCEPT ![index] = @ \cup {frame}],
          rebuilt |-> delivered.rebuilt \/ built]
    ELSE [frames |-> Put(delivered.frames, index, {frame}),
          rebuilt |-> delivered.rebuilt]

\* Call of getFrameAt(index): the guard, the hit path, and on a miss either
\* the start of the lookups or, with no event pointer, insert and return.
getFrameAt(c, index) ==
    /\ NoSyncSection
    /\ calls[c].pc = "idle"
    /\ IF ~InRange(index)
       THEN UNCHANGED <<calls, frameCache, delivered, displayedFrame>>
       ELSE IF CacheHas(frameCache, TargetTs(index))
       THEN /\ delivered' = Deliver(index, CacheGet(frameCache, TargetTs(index)), FALSE)
            /\ displayedFrame' = <<CacheGet(frameCache, TargetTs(index))>>
            /\ frameCache' = CacheAfterHit(frameCache, TargetTs(index))
            /\ calls' = calls
       ELSE LET frameData == NewFrameData(index)
                imageSnapshot == IF index \in DOMAIN frameImageIndex
                                 THEN frameImageIndex[index] ELSE EmptyMap
            IN  IF DOMAIN imageSnapshot # {}
                THEN /\ calls' = [calls EXCEPT ![c] =
                           [pc |-> "lookups", index |-> index, frameData |-> <<frameData>>,
                            iter |-> bag, pending |-> imageSnapshot]]
                     /\ UNCHANGED <<frameCache, delivered, displayedFrame>>
                ELSE /\ frameCache' = CacheEvict(CacheSet(frameCache, frameData.timestamp, frameData))
                     /\ delivered' = Deliver(index, frameData, TRUE)
                     /\ displayedFrame' = <<frameData>>
                     /\ calls' = calls
    /\ UNCHANGED <<bag, cv, timestamps, topicMetadata, historicalJointData, imageTopics,
                   jointTopics, frameImageIndex, ld, console>>

\* The lookup of one topic settles: its image, if any, is attached.
LookupSettle(c, topic) ==
    /\ NoSyncSection
    /\ calls[c].pc = "lookups"
    /\ topic \in DOMAIN calls[c].pending
    /\ LET url == IF calls[c].iter[1].opened
                  THEN LookupImage(calls[c].iter[1], topic, calls[c].pending[topic],
                                   topicMetadata, cv)
                  ELSE <<>>
           rest == [x \in (DOMAIN calls[c].pending) \ {topic} |-> calls[c].pending[x]]
       IN  calls' = [calls EXCEPT ![c].pending = rest,
                                  ![c].frameData[1].images = Attach(@, topic, url)]
    /\ frameImageIndex' = PointersAfterLookup(frameImageIndex, calls[c].index, topic)
    /\ UNCHANGED <<bag, timestamps, topicMetadata, historicalJointData, imageTopics,
                   jointTopics, frameCache, cv, ld, driverVars, pageVars, console>>

\* Mutant: the call goes on as soon as one lookup has settled.
SomeSettled(call) ==
    call.index \in DOMAIN frameImageIndex
        /\ DOMAIN call.pending # DOMAIN frameImageIndex[call.index]

\* Mutant: the call goes on only when every lookup has attached an image.
AllAttached(call) ==
    /\ DOMAIN call.pending = {}
    /\ call.index \in DOMAIN frameImageIndex
    /\ DOMAIN call.frameData[1].images = DOMAIN frameImageIndex[call.index]

\* await Promise.all(promises) (line 1260): every lookup of the call has settled.
AllSettled(call) == DOMAIN call.pending = {}

\* Promise.all resolved: insert, evict beyond capacity, return (lines 1263-1269).
GetFinish(c) ==
    /\ NoSyncSection
    /\ calls[c].pc = "lookups"
    /\ AllSettled(calls[c])
    /\ LET frameData == calls[c].frameData[1]
       IN  /\ frameCache' = CacheEvict(CacheSet(frameCache, frameData.timestamp, frameData))
           /\ delivered' = Deliver(calls[c].index, frameData, TRUE)
           /\ displayedFrame' = <<frameData>>
           /\ calls' = [calls EXCEPT ![c] = IdleCall]
    /\ UNCHANGED <<bag, cv, timestamps, topicMetadata, historicalJointData, imageTopics,
                   jointTopics, frameImageIndex, ld, currentFrameIndex, overlaps, refused, console,
                   pageVars>>

InFlight == {c \in Callers : calls[c].pc = "lookups"}

\* The indices the playback driver may ask for: the next frame (one past the
\* end at the last frame), the current frame again, an index below the
\* range, and, from the frame that fills the cache or from the last two
\* frames, the first frame.
RequestChoices ==
    {-1, currentFrameIndex, currentFrameIndex + 1}
        \cup (IF currentFrameIndex = CacheCapacity - 1 \/ currentFrameIndex + 2 >= Len(timestamps)
              THEN {0} ELSE {})

\* The driver overlaps requests at the first two and the last two frames.
OverlapAllowed == currentFrameIndex <= 1 \/ currentFrameIndex + 2 >= Len(timestamps)

\* The playback driver requests a frame and moves to it when it is in range.
\* Callers are taken in order, and at most MaxOverlaps requests are made
\* while another is in flight.
Request(c) ==
    /\ InFlight # {} => (overlaps < MaxOverlaps /\ OverlapAllowed)
    /\ \A d \in Callers : d < c => calls[d].pc # "idle"
    /\ \E index \in RequestChoices :
          /\ getFrameAt(c, index)
          /\ currentFrameIndex' = IF InRange(index) THEN index ELSE currentFrameIndex
    /\ overlaps' = IF InFlight # {} THEN overlaps + 1 ELSE overlaps
    /\ refused' = refused
    /\ UNCHANGED pageVars

CallStep(c) ==
    \/ Request(c)
    \/ \E topic \in DOMAIN calls[c].pending : LookupSettle(c, topic)
    \/ GetFinish(c)

(***************************************************************************)
(* Frame-store specification: one loadFile of a file long enough to fill   *)
(* the cache, and getFrameAt calls before, during and after it.            *)
(***************************************************************************)
\* 31 frames (0..1000 ms): a state topic, a raw image topic one of whose
\* images has an encoding the decoder rejects, and a compressed image topic.
LongFile ==
    BagFile(<<Conn("/joint", "sensor_msgs/JointState"),
              Conn("/cam2", "sensor_msgs/CompressedImage"),
              Conn("/cam", "sensor_msgs/Image")>>,
            <<BagMsg("/joint", Time(0, 0), JointState(<<>>, <<0, 0>>)),
              BagMsg("/cam", Time(0, 0), RawImage("rgb8", 1)),
              BagMsg("/cam2", Time(0, 400000), CompressedImage("png", 2)),
              BagMsg("/cam", Time(0, 500000000), RawImage("yuv422", 3)),
              BagMsg("/joint", Time(1, 0), JointState(<<"a">>, <<1>>))>>)

\* A file whose target topics carry no message.
EmptyStreamFile == BagFile(<<Conn("/joint", "sensor_msgs/JointState")>>, <<>>)

StoreFiles == {LongFile, ScenarioFile, UnreadableFile, EmptyStreamFile}

NextStore ==
    \/ LoadCall(1, StoreFiles)
    \/ LoadStep(1)
    \/ \E c \in Callers : CallStep(c)

SpecStore == Init /\ [][NextStore]_vars

(***************************************************************************)
(* C8: the frame cache never holds more than 30 entries, its keys stay     *)
(* distinct, and a step loses no entry except the single oldest-inserted   *)
(* one when an insert of a new key finds the cache full - also with        *)
(* several materializations in flight.                                     *)
(***************************************************************************)
KeySet(cache) == {cache[i].key : i \in 1..Len(cache)}

C8_CacheBound ==
    [][ /\ Len(frameCache') <= 30
        /\ Cardinality(KeySet(frameCache')) = Len(frameCache')
        /\ LET lost == KeySet(frameCache) \ KeySet(frameCache')
           IN  \/ lost = {}
               \/ /\ lost = {frameCache[1].key}
                  /\ Len(frameCache) = 30
                  /\ KeySet(frameCache') \ KeySet(frameCache) # {} ]_vars

\* A full cache from which frame 0 has been evicted, with two calls having
\* overlapped and one still in flight.
C8_Witness ==
    /\ Len(frameCache) = 30
    /\ 0 \in DOMAIN delivered.frames
    /\ ~CacheHas(frameCache, timestamps[1])
    /\ overlaps > 0
    /\ InFlight # {}

(***************************************************************************)
(* C9: eviction is first-in first-out.  A step either leaves the order of  *)
(* the cached keys as it is (in particular a cache hit does), or appends a *)
(* new key, dropping the earliest-inserted key when the cache held 30.     *)
(***************************************************************************)
C9_FifoEviction ==
    [][ LET keys == CacheKeys(frameCache)
            after == CacheKeys(frameCache')
        IN  \/ after = keys
            \/ \E k \in KeySet(frameCache') \ KeySet(frameCache) :
                  \/ Len(keys) < 30 /\ after = Append(keys, k)
                  \/ Len(keys) = 30 /\ after = Append(Tail(keys), k) ]_vars

\* Frames 0..29 were requested, 0 again (a hit), then 30: the cache holds
\* frames 1..30 and frame 0 is the one that went.
C9_Witness ==
    /\ Len(timestamps) > 30
    /\ CacheKeys(frameCache) = [i \in 1..30 |-> timestamps[i + 1]]
    /\ 0 \in DOMAIN delivered.frames
    /\ currentFrameIndex = 30

(***************************************************************************)
(* C10: getFrameAt is idempotent.  All frames returned for one index of a  *)
(* loaded source are equal - whether built, taken from the cache or built  *)
(* again after eviction - and carry the index's timestamp and state        *)
(* snapshot; a cached frame equals what was returned for its index.        *)
(***************************************************************************)
C10_Idempotent ==
    /\ \A i \in DOMAIN delivered.frames :
          /\ Cardinality(delivered.frames[i]) = 1
          /\ \A f \in delivered.frames[i] :
                /\ f.index = i
                /\ f.timestamp = timestamps[i + 1]
                /\ f.jointStateMap = historicalJointData[i]
                /\ DOMAIN f.images \subseteq DOMAIN frameImageIndex[i]
    /\ \A n \in 1..Len(frameCache) :
          frameCache[n].frame.index \in DOMAIN delivered.frames =>
              frameCache[n].frame \in delivered.frames[frameCache[n].frame.index]

\* With no calls ever overlapping, a frame that had been returned was evicted
\* and built again; frame 0 was returned and carries a decoded image.
C10_Witness ==
    /\ 0 \in DOMAIN delivered.frames
    /\ delivered.rebuilt
    /\ overlaps = 0
    /\ \E f \in delivered.frames[0] : DOMAIN f.images # {}

(***************************************************************************)
(* C11: single-flight materialization.  No two getFrameAt calls are in     *)
(* flight (past the cache check, lookups started, not yet resolved) for    *)
(* the same frame index: a second call for an index still being            *)
(* materialized attaches to the first instead of starting its own lookups. *)
(***************************************************************************)
C11_SingleFlight ==
    \A c, d \in Callers :
        (c # d /\ calls[c].pc = "lookups" /\ calls[d].pc = "lookups")
            => calls[c].index # calls[d].index

(***************************************************************************)
(* C12: partial-failure isolation.  Every frame getFrameAt returns for an  *)
(* index carries the index's timestamp and full state map and, for each    *)
(* topic of the frame's event-pointer map, the decoded image of that       *)
(* topic's pointed-to message when its lookup and decode succeed; a topic  *)
(* whose lookup or decode fails is absent from the image map and costs no  *)
(* other topic its image.                                                  *)
(***************************************************************************)
\* What the lookup of topic for frame i yields on the loaded file.
ExpectedImage(i, topic) ==
    LookupImage(LoadedFile, topic, frameImageIndex[i][topic], topicMetadata, TRUE)

C12_PartialFailureIsolation ==
    \A i \in DOMAIN delivered.frames : \A f \in delivered.frames[i] :
        /\ f.timestamp = timestamps[i + 1]
        /\ f.jointStateMap = historicalJointData[i]
        /\ DOMAIN f.images \subseteq DOMAIN frameImageIndex[i]
        /\ \A topic \in DOMAIN frameImageIndex[i] :
              IF ExpectedImage(i, topic) = <<>>
              THEN topic \notin DOMAIN f.images
              ELSE /\ topic \in DOMAIN f.images
                   /\ f.images[topic] = ExpectedImage(i, topic)[1]

\* A frame was returned whose /cam decode failed (unsupported encoding) and
\* whose /cam2 image is present.
C12_Witness ==
    \E i \in DOMAIN delivered.frames : \E f \in delivered.frames[i] :
        /\ {"/cam", "/cam2"} \subseteq DOMAIN frameImageIndex[i]
        /\ ExpectedImage(i, "/cam") = <<>>
        /\ "/cam" \notin DOMAIN f.images
        /\ "/cam2" \in DOMAIN f.images
        /\ f.jointStateMap # EmptyMap

(***************************************************************************)
(* C13: display ordering under supersession.  Once every request has       *)
(* resolved, the frame on display is the frame of the most recently        *)
(* requested index, whatever order the requests completed in.              *)
(***************************************************************************)
C13_DisplayFollowsLastRequest ==
    (InFlight = {} /\ displayedFrame # <<>>) => displayedFrame[1].index = currentFrameIndex

(***************************************************************************)
(* Session specification: loadFile called again and again with small files *)
(* (two of them with the same topics and message times but different       *)
(* contents, and three that fail to load), and getFrameAt probed with any  *)
(* index from one below the range to one past it, before, during and after *)
(* the loads, by one caller whose call may stay in flight across a reload. *)
(***************************************************************************)
\* The scenario's topics and first and last times with other contents; the
\* second image of /cam has an encoding the decoder rejects, and the image
\* of /cam2 holds one byte more than its 2 x 2 rgb8 pixels.
OtherScenarioFile ==
    BagFile(<<Conn("/joint", "sensor_msgs/JointState"), Conn("/cam", "sensor_msgs/Image"),
              Conn("/cam2", "sensor_msgs/Image")>>,
            <<BagMsg("/joint", Time(0, 0), JointState(<<"x", "y", "z">>, <<5, 5, 5>>)),
              BagMsg("/cam", Time(0, 0), RawImage("mono8", 7)),
              BagMsg("/cam2", Time(0, 0), SizedImage("rgb8", 9, 2, 2, 13)),
              BagMsg("/cam", Time(0, 20000000), RawImage("yuv422", 8)),
              BagMsg("/joint", Time(0, 50000000), JointState(<<"x", "y", "z">>, <<6, 6, 6>>))>>)

\* A file with no image or JointState connection.
ForeignFile ==
    BagFile(<<Conn("/tf", "tf2_msgs/TFMessage")>>,
            <<BagMsg("/tf", Time(0, 0), [transforms |-> 0])>>)

SessionFiles == {ScenarioFile, OtherScenarioFile, UnreadableFile, EmptyStreamFile, ForeignFile}

ProbeIndices == -1..2

\* A caller asks for any index; an index outside [0, frame count) is noted.
Probe(c) ==
    /\ \E index \in ProbeIndices :
          /\ getFrameAt(c, index)
          /\ currentFrameIndex' = IF InRange(index) THEN index ELSE currentFrameIndex
          /\ refused' = IF index < 0 \/ index >= Len(timestamps)
                        THEN refused \cup {index} ELSE refused
    /\ overlaps' = overlaps
    /\ UNCHANGED pageVars

\* The consumer calls loadFile with one of files after an earlier load has
\* resolved or rejected.
Reload(l, files) ==
    /\ ld[l].pc \in {"done", "rejected"}
    /\ \E file \in files : loadFile(l, file)
    /\ UNCHANGED pageVars

NextSession ==
    \/ LoadCall(1, SessionFiles)
    \/ Reload(1, SessionFiles)
    \/ LoadStep(1)
    \/ Probe(1)
    \/ \E topic \in DOMAIN calls[1].pending : LookupSettle(1, topic)
    \/ GetFinish(1)

SpecSession == Init /\ [][NextSession]_vars

(***************************************************************************)
(* C14: out-of-range index.  A getFrameAt call with an index below 0 or at *)
(* or beyond the frame count (every index while nothing is loaded) returns *)
(* null at once: it starts no lookup, returns and displays no frame, and   *)
(* leaves the cache and the frame index as they were.  A call that starts  *)
(* lookups has an index within the range.                                  *)
(***************************************************************************)
C14_OutOfRange ==
    [][ /\ refused' \ refused # {} =>
              UNCHANGED <<calls, frameCache, bag, timestamps, topicMetadata,
                          historicalJointData, frameImageIndex, delivered, displayedFrame>>
        /\ \A c \in Callers :
              (calls[c].pc = "idle" /\ calls'[c].pc = "lookups") =>
                  (calls'[c].index >= 0 /\ calls'[c].index < Len(timestamps)) ]_vars

\* With a file loaded and frames cached, indices below and past the range
\* have been asked for.
C14_Witness ==
    /\ ld[1].pc = "done"
    /\ frameCache # <<>>
    /\ -1 \in refused
    /\ Len(timestamps) \in refused

(***************************************************************************)
(* C15: topic classification.  Once loadFile has analysed the connections, *)
(* the event-topic list holds exactly the topics declared with a raw or    *)
(* compressed image type, the state-topic list exactly the topics declared *)
(* JointState, topics of any other type are in neither list, not in the    *)
(* target set and not in the topic metadata, and each list is in           *)
(* lexicographic order.                                                    *)
(***************************************************************************)
ImageFamily == {"sensor_msgs/Image", "sensor_msgs/CompressedImage"}

StateFamily == {"sensor_msgs/JointState"}

TopicsOfFamily(file, family) ==
    {file.conns[i].topic : i \in {j \in 1..Len(file.conns) : file.conns[j].type \in family}}

InTopicOrder(list) == \A i, j \in 1..Len(list) : i < j => ~TopicLess(list[j], list[i])

Analysed == ld[1].pc \in {"read", "frames", "done"}

C15_TopicClassification ==
    Analysed =>
        LET events == TopicsOfFamily(LoadedFile, ImageFamily)
            states == TopicsOfFamily(LoadedFile, StateFamily)
        IN  /\ Range(imageTopics) = events
            /\ Range(jointTopics) = states
            /\ Range(ld[1].targetTopics) = events \cup states
            /\ DOMAIN topicMetadata = events \cup states
            /\ \A i \in 1..Len(LoadedFile.conns) :
                  LoadedFile.conns[i].topic \in DOMAIN topicMetadata =>
                      topicMetadata[LoadedFile.conns[i].topic] = LoadedFile.conns[i].type
            /\ InTopicOrder(imageTopics)
            /\ InTopicOrder(jointTopics)

\* A file with an ignored topic, an image topic and two state topics listed
\* out of order has been analysed.
C15_Witness ==
    /\ Analysed
    /\ \E i \in 1..Len(LoadedFile.conns) : LoadedFile.conns[i].topic = "/tf"
    /\ jointTopics = <<"/joint", "/joint2">>
    /\ imageTopics = <<"/cam">>

(***************************************************************************)
(* C16: fatal load errors.  A load of a source that cannot be opened, that *)
(* has no image or JointState topic, or whose target topics carry no       *)
(* message never builds a frame and never resolves; once loadFile has      *)
(* rejected, the frame count is 0, the frame index is empty, and no        *)
(* getFrameAt call starts a lookup or returns a frame.                     *)
(***************************************************************************)
CannotOpen(file) == ~file.readable

NoCompatibleTopics(file) ==
    TopicsOfFamily(file, ImageFamily) \cup TopicsOfFamily(file, StateFamily) = {}

EmptyStream(file) ==
    \A i \in 1..Len(file.msgs) :
        file.msgs[i].topic \notin TopicsOfFamily(file, ImageFamily) \cup TopicsOfFamily(file, StateFamily)

FatalInput(file) == CannotOpen(file) \/ NoCompatibleTopics(file) \/ EmptyStream(file)

Rejected == ld[1].pc = "rejected"

C16_FatalLoadErrors ==
    [][ /\ ld'[1].pc \in {"frames", "done"} => ~FatalInput(ld'[1].file[1])
        /\ Rejected' =>
              /\ timestamps' = <<>>
              /\ historicalJointData' = EmptyMap
              /\ frameImageIndex' = EmptyMap
        /\ (Rejected /\ Rejected') =>
              /\ \A c \in Callers : ~(calls[c].pc = "idle" /\ calls'[c].pc = "lookups")
              /\ delivered' # delivered =>
                    \E c \in Callers : calls[c].pc = "lookups" /\ calls'[c].pc = "idle"
              /\ refused' # refused => UNCHANGED <<delivered, displayedFrame, frameCache>> ]_vars

\* After a successful load, a load of a file without compatible topics has
\* rejected; every index was asked for during or after it.
C16_Witness ==
    /\ Rejected
    /\ LoadedFile = ForeignFile
    /\ refused = ProbeIndices
    /\ displayedFrame # <<>>

(***************************************************************************)
(* C17: reload discards previous data.  Once a loadFile has resolved,      *)
(* every cached frame is a frame of the source just loaded: it is cached   *)
(* under the timestamp of its index in the new frame index and carries     *)
(* that index's state snapshot and images decoded from the new source -    *)
(* also when a getFrameAt on the previous source was in flight when the    *)
(* reload began.                                                           *)
(***************************************************************************)
FromLoadedSource(entry) ==
    LET f == entry.frame
    IN  /\ f.index \in FrameIdxs
        /\ entry.key = timestamps[f.index + 1]
        /\ f.timestamp = entry.key
        /\ f.jointStateMap = historicalJointData[f.index]
        /\ \A topic \in DOMAIN f.images :
              /\ topic \in DOMAIN frameImageIndex[f.index]
              /\ <<f.images[topic]>> = ExpectedImage(f.index, topic)

C17_ReloadDiscards ==
    LoadDone => \A n \in 1..Len(frameCache) : FromLoadedSource(frameCache[n])

(***************************************************************************)
(* C18: the frame index is read-only after load.  From the moment loadFile *)
(* has resolved until loadFile is called again, no step - a getFrameAt hit *)
(* or miss, a lookup that succeeds or fails, an out-of-range call, the     *)
(* completion of a call - changes timestamps, a frame's state snapshot or  *)
(* a frame's event-pointer map.                                            *)
(***************************************************************************)
C18_IndexReadOnly ==
    [][ (LoadDone /\ LoadDone') =>
            UNCHANGED <<timestamps, historicalJointData, frameImageIndex>> ]_vars

\* After the load resolved: a cached frame whose /cam lookup failed,
\* another whose lookup succeeded, and out-of-range calls.
C18_Witness ==
    /\ LoadDone
    /\ refused # {}
    /\ Len(frameCache) = 2
    /\ \A n \in 1..2 : FromLoadedSource(frameCache[n])
    /\ \E n \in 1..2 : ExpectedImage(frameCache[n].frame.index, "/cam") = <<>>
    /\ \E n \in 1..2 : DOMAIN frameCache[n].frame.images # {}

(***************************************************************************)
(* C19: snapshot independence.  During frame generation, what has been     *)
(* recorded for a frame - its timestamp, its state snapshot and its        *)
(* event-pointer map - is not changed by consuming later messages and      *)
(* recording later frames.                                                 *)
(***************************************************************************)
Generating == ld[1].pc = "frames"

C19_SnapshotIndependence ==
    [][ Generating =>
            /\ \A i \in DOMAIN timestamps : i \in DOMAIN timestamps' /\ timestamps'[i] = timestamps[i]
            /\ \A i \in DOMAIN historicalJointData :
                  i \in DOMAIN historicalJointData' /\ historicalJointData'[i] = historicalJointData[i]
            /\ \A i \in DOMAIN frameImageIndex :
                  i \in DOMAIN frameImageIndex' /\ frameImageIndex'[i] = frameImageIndex[i] ]_vars

\* Generation has recorded a later frame whose state snapshot differs from
\* frame 0's.
C19_Witness ==
    /\ ld[1].pc \in {"frames", "done"}
    /\ \E j \in DOMAIN historicalJointData :
          /\ j > 0
          /\ historicalJointData[j] # historicalJointData[0]
          /\ historicalJointData[0] # EmptyMap

(***************************************************************************)
(* C20: fan-in before return.  A getFrameAt call that missed resolves only *)
(* when every lookup of its frame's event-pointer map has settled, and a   *)
(* frame enters the cache only from a call all of whose lookups have       *)
(* settled (or for a frame without event pointers).                        *)
(***************************************************************************)
Resolves(c) == calls[c].pc = "lookups" /\ calls'[c].pc = "idle"

C20_FanInBeforeReturn ==
    [][ /\ \A c \in Callers : Resolves(c) => DOMAIN calls[c].pending = {}
        /\ \A n \in 1..Len(frameCache') :
              (\A m \in 1..Len(frameCache) : frameCache[m] # frameCache'[n]) =>
                  \/ \E c \in Callers :
                        /\ Resolves(c)
                        /\ DOMAIN calls[c].pending = {}
                        /\ frameCache'[n].frame = calls[c].frameData[1]
                  \/ /\ frameCache'[n].frame.index \in DOMAIN frameImageIndex
                     /\ DOMAIN frameImageIndex[frameCache'[n].frame.index] = {}
        /\ delivered'.frames # delivered.frames =>
              \/ \E c \in Callers : Resolves(c)
              \/ \A c \in Callers : calls'[c] = calls[c] ]_vars

\* A call in flight with one lookup settled and its image attached, one
\* still pending, and its frame neither cached nor returned.
C20_Witness ==
    \E c \in Callers :
        /\ calls[c].pc = "lookups"
        /\ Cardinality(DOMAIN calls[c].pending) = 1
        /\ DOMAIN calls[c].frameData[1].images # {}
        /\ ~CacheHas(frameCache, calls[c].frameData[1].timestamp)
        /\ calls[c].index \notin DOMAIN delivered.frames

(***************************************************************************)
(* AnnotationPage (lines 72-500): the component's state and its handlers.  *)
(* A handler is one action: its state updates and the effects that React   *)
(* runs after them.  The bags given to the page carry state topics only,   *)
(* so every getFrameAt call returns in the step that makes it.             *)
(***************************************************************************)
\* generateUniqueId (line 60): an id held by no annotation and no
\* selection; the smallest free number stands for the time-and-random string.
IdsInUse(subs, cons) ==
    {subs[i].id : i \in DOMAIN subs} \cup {cons[i].id : i \in DOMAIN cons}
        \cup Range(selectedSubtaskId) \cup Range(selectedContactId)
        \cup {draggingState[i].id : i \in DOMAIN draggingState}

generateUniqueId(used) ==
    CHOOSE n \in 0..Cardinality(used) :
        n \notin used /\ \A m \in 0..Cardinality(used) : m \notin used => n <= m

\* A SubtaskAnnotation (lines 26-33); quality is <<>> for null.
SubtaskAnnotation(id, start, end, quality, prompt) ==
    [id |-> id, username |-> "local", start |-> start, end |-> end,
     quality |-> quality, prompt |-> prompt]

\* list.splice(at, count, ...items) at JavaScript index at - 1.
Splice(list, at, count, items) ==
    SubSeq(list, 1, at - 1) \o items \o SubSeq(list, at + count, Len(list))

\* subtasks.findIndex(s => s.id === id) + 1: 0 when there is none.
SubtaskIndexOf(list, id) ==
    LET found == {i \in DOMAIN list : <<list[i].id>> = id}
    IN  IF found = {} THEN 0 ELSE CHOOSE i \in found : \A j \in found : i <= j

\* list.find(a => index >= a.start && index <= a.end)?.id (lines 477-480).
FindIdAt(list, index) ==
    LET found == {i \in DOMAIN list : index >= list[i].start /\ index <= list[i].end}
    IN  IF found = {} THEN <<>>
        ELSE <<list[CHOOSE i \in found : \A j \in found : i <= j].id>>

\* Mutant: the split target may begin or end at the hovered frame.
SplitTargetClosed(list, idx) ==
    LET found == {i \in DOMAIN list : list[i].start <= idx /\ list[i].end >= idx}
    IN  IF found = {} THEN 0 ELSE CHOOSE i \in found : \A j \in found : i <= j

\* subtasks.findIndex(s => s.start < idx && s.end > idx) + 1 (line 357).
SplitTarget(list, idx) ==
    LET found == {i \in DOMAIN list : list[i].start < idx /\ list[i].end > idx}
    IN  IF found = {} THEN 0 ELSE CHOOSE i \in found : \A j \in found : i <= j

\* The list handleSubtaskContextMenu sets for hovered frame idx (lines 356-364).
SplitAt(list, idx) ==
    LET target == SplitTarget(list, idx)
    IN  IF target = 0 THEN list
        ELSE LET old == list[target]
                 idL == generateUniqueId(IdsInUse(list, contacts))
                 idR == generateUniqueId(IdsInUse(list, contacts) \cup {idL})
                 newL == [old EXCEPT !.id = idL, !.end = idx - 1]
                 newR == [old EXCEPT !.id = idR, !.start = idx]
             IN  Splice(list, target, 1, <<newL, newR>>)

\* Mutant: the merged subtask keeps its own start.
MergedKeepsStart(current, prev) == current

\* { ...current, start: prev.start } (line 341).
MergedWithPrev(current, prev) == [current EXCEPT !.start = prev.start]

\* { ...current, end: next.end } (line 346).
MergedWithNext(current, next) == [current EXCEPT !.end = next.end]

\* The list handleMergeSubtask sets (lines 331-350).
MergeAt(list, id, direction) ==
    LET index == SubtaskIndexOf(list, id)
    IN  IF index = 0 THEN list
        ELSE IF direction = "prev" /\ index > 1
        THEN Splice(list, index - 1, 2, <<MergedWithPrev(list[index], list[index - 1])>>)
        ELSE IF direction = "next" /\ index < Len(list)
        THEN Splice(list, index, 2, <<MergedWithNext(list[index], list[index + 1])>>)
        ELSE list

\* The user's input reaches the page while no load is running, or while one
\* is at its first or second await: from reset() to the end of the load the
\* service answers every frame request in the same way (with null), and
\* loadBagFile continues as soon as loadFile has settled, before any input.
InputArrives == isLoadingBag => ld[1].pc \in {"init", "open"}

\* fetchFrame(idx) (lines 245-248) by the page's one caller.
fetchFrame(idx) == getFrameAt(1, idx)

\* A handler that asks for no frame.
NoFetch == UNCHANGED <<serviceVars, cv, ld, calls, displayedFrame, delivered, console>>

\* The effect of lines 280-282, run after a handler's updates: when
\* currentFrameIndex or isPlaying has changed and playback is off, the
\* current frame is fetched.
SeekEffect ==
    IF ~isPlaying' /\ (currentFrameIndex' # currentFrameIndex \/ isPlaying' # isPlaying)
    THEN fetchFrame(currentFrameIndex')
    ELSE NoFetch

\* loadBagFile(file) up to `await bagService.loadFile` (lines 122-135).
loadBagFile(file) ==
    /\ ~isLoadingBag
    /\ isLoadingBag' = TRUE
    /\ contacts' = <<>>
    /\ subtasks' = <<>>
    /\ selectedContactId' = <<>>
    /\ selectedSubtaskId' = <<>>
    /\ loadFile(1, file)
    /\ uiEvent' = "other"
    /\ UNCHANGED <<isFileLoaded, pageTimestamps, isPlaying, hoveredFrame>>
    /\ UNCHANGED contactVars

\* loadFile resolved: the rest of the try block and finally (lines 136-206).
loadBagFileResolved ==
    /\ isLoadingBag
    /\ ld[1].pc = "done"
    /\ pageTimestamps' = timestamps
    /\ fetchFrame(0)
    /\ currentFrameIndex' = 0
    /\ subtasks' = <<SubtaskAnnotation(generateUniqueId(IdsInUse(subtasks, contacts)),
                                       0, Len(timestamps) - 1, <<>>, "")>>
    /\ isFileLoaded' = TRUE
    /\ isLoadingBag' = FALSE
    /\ UNCHANGED <<overlaps, refused, isPlaying, contacts, selectedSubtaskId,
                   selectedContactId, hoveredFrame, uiEvent>>
    /\ UNCHANGED contactVars

\* loadFile rejected: catch and finally (lines 201-206).
loadBagFileRejected ==
    /\ isLoadingBag
    /\ ld[1].pc = "rejected"
    /\ isLoadingBag' = FALSE
    /\ console' = console \cup {"Error loading bag"}
    /\ UNCHANGED <<serviceVars, cv, ld, calls, driverVars, isFileLoaded, pageTimestamps,
                   isPlaying, subtasks, contacts, selectedSubtaskId, selectedContactId,
                   hoveredFrame, uiEvent>>
    /\ UNCHANGED contactVars

\* togglePlayback (lines 250-259), with the effect that follows.
togglePlayback ==
    IF isPlaying
    THEN /\ isPlaying' = FALSE
         /\ currentFrameIndex' = currentFrameIndex
         /\ SeekEffect
    ELSE /\ isPlaying' = TRUE
         /\ IF currentFrameIndex >= Len(pageTimestamps) - 1
            THEN currentFrameIndex' = 0 /\ fetchFrame(0)
            ELSE currentFrameIndex' = currentFrameIndex /\ NoFetch

\* onClick of the playback button (lines 945-952).
PlayButtonClick ==
    /\ InputArrives
    /\ isFileLoaded
    /\ IF Len(pageTimestamps) > 0 /\ currentFrameIndex >= Len(pageTimestamps) - 1
       THEN /\ currentFrameIndex' = 0
            /\ isPlaying' = TRUE
            /\ NoFetch
       ELSE togglePlayback
    /\ uiEvent' = "other"
    /\ UNCHANGED <<overlaps, refused, isFileLoaded, isLoadingBag, pageTimestamps, subtasks,
                   contacts, selectedSubtaskId, selectedContactId, hoveredFrame>>
    /\ UNCHANGED contactVars

\* One tick of the playback interval (lines 263-274), with the effect that
\* follows when it stops playback.
PlaybackTick ==
    /\ InputArrives
    /\ isPlaying
    /\ Len(pageTimestamps) > 0
    /\ IF currentFrameIndex + 1 >= Len(pageTimestamps)
       THEN /\ isPlaying' = FALSE
            /\ currentFrameIndex' = currentFrameIndex
            /\ SeekEffect
       ELSE /\ isPlaying' = TRUE
            /\ currentFrameIndex' = currentFrameIndex + 1
            /\ fetchFrame(currentFrameIndex + 1)
    /\ UNCHANGED <<overlaps, refused, isFileLoaded, isLoadingBag, pageTimestamps, subtasks,
                   contacts, selectedSubtaskId, selectedContactId, hoveredFrame, uiEvent>>
    /\ UNCHANGED contactVars

\* handleDeleteContact (lines 460-464).
handleDeleteContact ==
    IF selectedContactId = <<>>
    THEN UNCHANGED <<contacts, selectedContactId>>
    ELSE /\ contacts' = SelectSeq(contacts, LAMBDA c : <<c.id>> # selectedContactId)
         /\ selectedContactId' = <<>>

\* The keys pressed: Space, the two deleting keys, and a letter.
Keys == {" ", "Delete", "Backspace", "a"}

\* handleKeyDown (lines 401-411) with the focus outside any input field.
handleKeyDown(key) ==
    /\ InputArrives
    /\ IF key \in {"Delete", "Backspace"} /\ selectedContactId # <<>>
       THEN handleDeleteContact
       ELSE UNCHANGED <<contacts, selectedContactId>>
    /\ uiEvent' = IF key = " " THEN "keydown:Space" ELSE "other"
    /\ NoFetch
    /\ UNCHANGED <<currentFrameIndex, overlaps, refused, isFileLoaded, isLoadingBag,
                   pageTimestamps, isPlaying, subtasks, selectedSubtaskId, hoveredFrame>>
    /\ UNCHANGED contactVars

\* handleTimelineMouseLeave (lines 492-494).
handleTimelineMouseLeave ==
    /\ InputArrives
    /\ isFileLoaded
    /\ hoveredFrame' = <<>>
    /\ uiEvent' = "other"
    /\ NoFetch
    /\ UNCHANGED <<currentFrameIndex, overlaps, refused, isFileLoaded, isLoadingBag,
                   pageTimestamps, isPlaying, subtasks, contacts, selectedSubtaskId,
                   selectedContactId>>
    /\ UNCHANGED contactVars

\* handleTimelineClick (lines 468-481) with the pointer over frame index
\* (the mouse move that brought it there has set hoveredFrame, lines
\* 482-490), and the effect that follows.
handleTimelineClick(index) ==
    /\ InputArrives
    /\ isFileLoaded
    /\ Len(pageTimestamps) > 0
    /\ index \in 0..(Len(pageTimestamps) - 1)
    /\ hoveredFrame' = <<index>>
    /\ currentFrameIndex' = index
    /\ isPlaying' = FALSE
    /\ selectedSubtaskId' = FindIdAt(subtasks, index)
    /\ selectedContactId' = FindIdAt(contacts, index)
    /\ SeekEffect
    /\ uiEvent' = "other"
    /\ UNCHANGED <<overlaps, refused, isFileLoaded, isLoadingBag, pageTimestamps, subtasks,
                   contacts>>
    /\ UNCHANGED contactVars

\* handleSubtaskContextMenu (lines 353-366): a right-click on the subtask
\* track with the pointer over frame idx (the mouse move that brought it
\* there has set hoveredFrame; with no frame loaded it has not, line 483).
handleSubtaskContextMenu(idx) ==
    /\ InputArrives
    /\ isFileLoaded
    /\ idx \in 0..(Len(pageTimestamps) - 1)
    /\ hoveredFrame' = <<idx>>
    /\ subtasks' = IF hoveredFrame' = <<>> THEN subtasks ELSE SplitAt(subtasks, hoveredFrame'[1])
    /\ uiEvent' = "contextmenu:subtask"
    /\ NoFetch
    /\ UNCHANGED <<currentFrameIndex, overlaps, refused, isFileLoaded, isLoadingBag,
                   pageTimestamps, isPlaying, contacts, selectedSubtaskId, selectedContactId>>
    /\ UNCHANGED contactVars

\* handleMergeSubtask(direction) (lines 330-351), from the buttons shown
\* while a subtask is selected (lines 759-793).
handleMergeSubtask(direction) ==
    /\ InputArrives
    /\ isFileLoaded
    /\ selectedSubtaskId # <<>>
    /\ subtasks' = MergeAt(subtasks, selectedSubtaskId, direction)
    /\ uiEvent' = IF direction = "prev" THEN "click:mergePrev" ELSE "click:mergeNext"
    /\ NoFetch
    /\ UNCHANGED <<currentFrameIndex, overlaps, refused, isFileLoaded, isLoadingBag,
                   pageTimestamps, isPlaying, contacts, selectedSubtaskId, selectedContactId,
                   hoveredFrame>>
    /\ UNCHANGED contactVars

\* The user describes and rates a subtask before splitting it.
EditArrives == Len(subtasks) <= 1

\* The prompt typed and the quality button pressed.
PromptChoices == {"pick the cube"}

QualityChoices == {"good"}

\* handleSubtaskChange(val) (lines 318-320), from the prompt field shown
\* while a subtask is selected.
handleSubtaskChange(val) ==
    /\ InputArrives
    /\ isFileLoaded
    /\ selectedSubtaskId # <<>>
    /\ EditArrives
    /\ subtasks' = [i \in DOMAIN subtasks |->
                       IF <<subtasks[i].id>> = selectedSubtaskId
                       THEN [subtasks[i] EXCEPT !.prompt = val] ELSE subtasks[i]]
    /\ uiEvent' = "other"
    /\ NoFetch
    /\ UNCHANGED <<currentFrameIndex, overlaps, refused, isFileLoaded, isLoadingBag,
                   pageTimestamps, isPlaying, contacts, selectedSubtaskId, selectedContactId,
                   hoveredFrame>>
    /\ UNCHANGED contactVars

\* onClick of quality button q (line 783): sets q, or clears it when active.
QualityClick(q) ==
    /\ InputArrives
    /\ isFileLoaded
    /\ selectedSubtaskId # <<>>
    /\ EditArrives
    /\ subtasks' = [i \in DOMAIN subtasks |->
                       IF <<subtasks[i].id>> = selectedSubtaskId
                       THEN [subtasks[i] EXCEPT
                                !.quality = IF @ = <<q>> THEN <<>> ELSE <<q>>]
                       ELSE subtasks[i]]
    /\ uiEvent' = "other"
    /\ NoFetch
    /\ UNCHANGED <<currentFrameIndex, overlaps, refused, isFileLoaded, isLoadingBag,
                   pageTimestamps, isPlaying, contacts, selectedSubtaskId, selectedContactId,
                   hoveredFrame>>
    /\ UNCHANGED contactVars

(***************************************************************************)
(* Page specifications: bags dropped on the page, and the user's input.    *)
(***************************************************************************)
\* Four frames (0, 33, 67, 100 ms) of one state topic.
FourFrameFile ==
    BagFile(<<Conn("/joint", "sensor_msgs/JointState")>>,
            <<BagMsg("/joint", Time(0, 0), JointState(<<>>, <<0>>)),
              BagMsg("/joint", Time(0, 100000000), JointState(<<>>, <<1>>))>>)

PageFiles == {FourFrameFile, UnreadableFile}

\* The frames the pointer may be over.
PointerFrames == 0..3

\* A bag of files dropped on the page is loaded to the end.
PageLoad(files) ==
    \/ \E file \in files : loadBagFile(file)
    \/ LoadStep(1) /\ isLoadingBag
    \/ loadBagFileResolved

\* Playback session: the user plays, pauses, seeks and presses keys.
NextPlayback ==
    \/ PageLoad(PageFiles)
    \/ loadBagFileRejected
    \/ PlayButtonClick
    \/ PlaybackTick
    \/ \E key \in Keys : handleKeyDown(key)
    \/ \E index \in PointerFrames : handleTimelineClick(index)
    \/ handleTimelineMouseLeave

SpecPlayback == Init /\ [][NextPlayback]_vars

\* Subtask session: the user selects, splits, merges and describes subtasks.
NextSubtasks ==
    \/ PageLoad({FourFrameFile})
    \/ \E index \in PointerFrames : handleTimelineClick(index)
    \/ \E idx \in PointerFrames : handleSubtaskContextMenu(idx)
    \/ \E direction \in {"prev", "next"} : handleMergeSubtask(direction)
    \/ \E val \in PromptChoices : handleSubtaskChange(val)
    \/ \E q \in QualityChoices : QualityClick(q)

SpecSubtasks == Init /\ [][NextSubtasks]_vars

(***************************************************************************)
(* C21: keyboard shortcut.  With a file loaded, a press of the Space key   *)
(* toggles playback: isPlaying becomes true if it was false and false if   *)
(* it was true.                                                            *)
(***************************************************************************)
C21_SpaceTogglesPlayback ==
    [][ (isFileLoaded /\ uiEvent # "keydown:Space" /\ uiEvent' = "keydown:Space")
            => isPlaying' = ~isPlaying ]_vars

(***************************************************************************)
(* C22 as claimed: a right-click on the subtask track at hovered frame idx *)
(* within a subtask [s, e] (s <= idx <= e) replaces it by [s, idx-1] and   *)
(* [idx, e] with the original prompt and quality and leaves the others     *)
(* unchanged; Merge Prev / Merge Next on the selected subtask replace it   *)
(* and its neighbour by one subtask spanning both.                         *)
(***************************************************************************)
\* The step is a right-click on the subtask track.
RightClick == uiEvent # "contextmenu:subtask" /\ uiEvent' = "contextmenu:subtask"

\* after is list with the subtask at position i replaced by its parts up to
\* idx - 1 and from idx.
IsSplit(list, i, idx, after) ==
    /\ Len(after) = Len(list) + 1
    /\ \A j \in 1..(i - 1) : after[j] = list[j]
    /\ \A j \in (i + 1)..Len(list) : after[j + 1] = list[j]
    /\ after[i].start = list[i].start /\ after[i].end = idx - 1
    /\ after[i + 1].start = idx /\ after[i + 1].end = list[i].end
    /\ after[i].prompt = list[i].prompt /\ after[i + 1].prompt = list[i].prompt
    /\ after[i].quality = list[i].quality /\ after[i + 1].quality = list[i].quality

\* after is list with the subtasks at positions i and i + 1 replaced by one
\* that spans both.
IsMerge(list, i, after) ==
    /\ Len(after) = Len(list) - 1
    /\ \A j \in 1..(i - 1) : after[j] = list[j]
    /\ \A j \in (i + 2)..Len(list) : after[j - 1] = list[j]
    /\ after[i].start = list[i].start /\ after[i].end = list[i + 1].end

\* A click on a merge button, with the selected subtask in the list, sets
\* the list merged with the neighbour on that side, if there is one.
MergeAsClaimed ==
    \A i \in DOMAIN subtasks :
        <<subtasks[i].id>> = selectedSubtaskId =>
            /\ (uiEvent # "click:mergePrev" /\ uiEvent' = "click:mergePrev" /\ i > 1)
                   => IsMerge(subtasks, i - 1, subtasks')
            /\ (uiEvent # "click:mergeNext" /\ uiEvent' = "click:mergeNext" /\ i < Len(subtasks))
                   => IsMerge(subtasks, i, subtasks')

StrictlyInside(list, idx) == {i \in DOMAIN list : list[i].start < idx /\ idx < list[i].end}

AllKeys(i) ==
    /\ DOMAIN historicalJointData[i] = JointSet(LoadedFile)
    /\ DOMAIN frameImageIndex[i] = ImageSet(LoadedFile)

C23_CompleteCoverage ==
    ld[1].pc \in {"frames", "done"} =>
        /\ FullCoverage(LoadedFile) => \A i \in FrameIdxs : AllKeys(i)
        /\ (\E i \in FrameIdxs : ~AllKeys(i)) =>
              (~FullCoverage(LoadedFile) /\ "Incomplete bag" \in console)

\* A finished load of a state and an event topic whose bootstrap comes
\* after the first message.
C23_Witness ==
    /\ LoadDone
    /\ FullCoverage(LoadedFile)
    /\ JointSet(LoadedFile) # {} /\ ImageSet(LoadedFile) # {}
    /\ timestamps[1] > FirstMs(LoadedFile)
    /\ \A i \in FrameIdxs : AllKeys(i)

(***************************************************************************)
(* C24: tie-break.  The messages are ordered by millisecond timestamp with *)
(* ties kept in the order read, and when several messages of one state     *)
(* topic share a timestamp, every frame at or after that timestamp, until  *)
(* a later message of the topic, records the value of the one read last.   *)
(***************************************************************************)
\* Place (from 1) of message i of file among its target messages in stable
\* timestamp order.
StableRank(file, i) == Cardinality({j \in TargetIdx(file) : StableLE(file, j, i)})

\* Message k of file shares its topic and millisecond with another message.
Tied(file, k) ==
    \E j \in TargetIdx(file) \ {k} :
        file.msgs[j].topic = file.msgs[k].topic /\ MsOf(file, j) = MsOf(file, k)

C24_TieBreak ==
    ld[1].pc \in {"frames", "done"} =>
        /\ \A i \in TargetIdx(LoadedFile) :
              ld[1].allMessages[StableRank(LoadedFile, i)] =
                  LightMessage(LoadedFile.msgs[i], jointTopics)
        /\ \A i \in FrameIdxs : \A topic \in JointSet(LoadedFile) :
              LET k == LatestIdx(LoadedFile, topic, timestamps[i + 1])
              IN  (k # 0 /\ Tied(LoadedFile, k)) =>
                     /\ topic \in DOMAIN historicalJointData[i]
                     /\ historicalJointData[i][topic] = SnapshotMsg(LoadedFile.msgs[k].message)

(***************************************************************************)
(* C25 as claimed: forward-only cursor.  During frame generation the       *)
(* message cursor never decreases from one frame to the next, and over the *)
(* whole load (bootstrapping scan plus frame generation) each message is   *)
(* applied to the running maps at most once.                               *)
(***************************************************************************)
\* The cursor does not go back in a step of frame generation.
CursorForward ==
    (ld[1].pc = "frames" /\ ld'[1].pc \in {"frames", "done"})
        => ld'[1].msgCursor >= ld[1].msgCursor

OverlapFileA ==
    BagFile(<<Conn("/joint", "sensor_msgs/JointState"), Conn("/cam", "sensor_msgs/Image")>>,
            <<BagMsg("/joint", Time(0, 0), JointState(<<"x", "y", "z">>, <<0, 0, 0>>)),
              BagMsg("/cam", Time(0, 0), RawImage("rgb8", 0)),
              BagMsg("/cam", Time(0, 40000000), RawImage("rgb8", 40)),
              BagMsg("/joint", Time(0, 70000000), JointState(<<"x", "y", "z">>, <<1, 1, 1>>))>>)

\* /cam at 0 and 50 ms: no image at 40 ms.
OverlapFileB ==
    BagFile(<<Conn("/joint", "sensor_msgs/JointState"), Conn("/cam", "sensor_msgs/Image")>>,
            <<BagMsg("/joint", Time(0, 0), JointState(<<"x", "y", "z">>, <<5, 5, 5>>)),
              BagMsg("/cam", Time(0, 0), RawImage("mono8", 7)),
              BagMsg("/cam", Time(0, 50000000), RawImage("mono8", 9))>>)

\* The files of the first call: OverlapFileA, or one that fails to load.
FirstFiles == {OverlapFileA, UnreadableFile, EmptyStreamFile}

NextOverlap ==
    \/ LoadCall(1, FirstFiles)
    \/ LoadCall(2, {OverlapFileB})
    \/ LoadStep(1)
    \/ LoadStep(2)
    \/ Probe(1)
    \/ \E topic \in DOMAIN calls[1].pending : LookupSettle(1, topic)
    \/ GetFinish(1)

SpecOverlap == Init /\ [][NextOverlap]_vars

(***************************************************************************)
(* C26: exact-pointer lookup.  When the lookup of topic T settles during a *)
(* materialization, an image is attached for T only if the first message   *)
(* the source returns for T from the pointer on has exactly the pointer's  *)
(* (sec, nsec) timestamp, and then it is made from that message; if that   *)
(* message has another timestamp or none is returned, T is left out, the   *)
(* images of the other topics stay, and the call still returns the frame   *)
(* as it stands when its lookups have settled.                             *)
(***************************************************************************)
\* The topics of caller 1's materialization whose lookup settles in this step.
SettledNow == (DOMAIN calls[1].pending) \ (DOMAIN calls'[1].pending)

\* The message the source of caller 1's materialization returns first for
\* topic from the pointer on: <<>> when it returns none.
Returned(topic) ==
    LET source == calls[1].iter[1]
        i == LookupFirst(source.msgs, topic, calls[1].pending[topic])
    IN  IF source.opened /\ i # 0 THEN <<source.msgs[i]>> ELSE <<>>

ExactlyAt(topic) ==
    Returned(topic) # <<>> /\ Returned(topic)[1].timestamp = calls[1].pending[topic]

C26_ExactPointer ==
    [][ /\ (calls[1].pc = "lookups" /\ calls'[1].pc = "lookups") =>
              \A topic \in SettledNow :
                 LET before == calls[1].frameData[1].images
                     after == calls'[1].frameData[1].images
                 IN  /\ topic \in DOMAIN after =>
                            /\ ExactlyAt(topic)
                            /\ after[topic].data = Returned(topic)[1].message.data
                     /\ ~ExactlyAt(topic) => topic \notin DOMAIN after
                     /\ \A other \in DOMAIN before :
                            other \in DOMAIN after /\ after[other] = before[other]
        /\ Resolves(1) =>
              /\ displayedFrame' = calls[1].frameData
              /\ calls[1].frameData[1] \in delivered'.frames[calls[1].index] ]_vars

\* A frame has been returned without /cam: its pointer leads, in the open
\* source, to an image with a later timestamp.  An earlier frame was
\* returned with the image found exactly at its pointer.
C26_Witness ==
    /\ bag # <<>> /\ bag[1].opened
    /\ displayedFrame # <<>>
    /\ LET f == displayedFrame[1]
       IN  /\ f.index \in DOMAIN frameImageIndex
           /\ "/cam" \in DOMAIN frameImageIndex[f.index]
           /\ "/cam" \notin DOMAIN f.images
           /\ LET i == LookupFirst(bag[1].msgs, "/cam", frameImageIndex[f.index]["/cam"])
              IN  i # 0 /\ bag[1].msgs[i].timestamp # frameImageIndex[f.index]["/cam"]
    /\ \E n \in 1..Len(frameCache) : "/cam" \in DOMAIN frameCache[n].frame.images

(***************************************************************************)
(* C27: decoder rejection is non-fatal.  processMessage returns null for   *)
(* an image whose encoding is none of 16UC1, bgr8, rgb8 and mono8, for one *)
(* whose decoding throws, and whenever the decoder is not initialised.     *)
(* When the lookup of a raw image topic finds such a message at its        *)
(* pointer, the topic is absent from the frame's image map, and the call   *)
(* still returns the frame.                                                *)
(***************************************************************************)
\* The cases in which the decoder is to return null.
NullCase(msg, ready) ==
    \/ ~ready
    \/ msg.encoding \notin {"16UC1", "bgr8", "rgb8", "mono8"}
    \/ DecodeThrows(msg)

\* The raw images of the source of caller 1's materialization.
RawImagesOf(source) ==
    {source.msgs[i].message : i \in {j \in 1..Len(source.msgs) :
                                        "encoding" \in DOMAIN source.msgs[j].message}}

C27_DecoderRejection ==
    [][ /\ (calls[1].pc = "lookups" /\ calls'[1].pc = "lookups") =>
              /\ \A msg \in RawImagesOf(calls[1].iter[1]) : \A ready \in BOOLEAN :
                     NullCase(msg, ready) => processMessage(msg, ready) = <<>>
              /\ \A topic \in SettledNow :
                     ( /\ ExactlyAt(topic)
                       /\ topic \in DOMAIN topicMetadata
                       /\ topicMetadata[topic] = "sensor_msgs/Image"
                       /\ "encoding" \in DOMAIN Returned(topic)[1].message
                       /\ NullCase(Returned(topic)[1].message, cv) )
                     => topic \notin DOMAIN calls'[1].frameData[1].images
        /\ Resolves(1) =>
              /\ calls[1].frameData[1] \in delivered'.frames[calls[1].index]
              /\ displayedFrame'[1].images = calls[1].frameData[1].images ]_vars

\* Frame 1 of OtherScenarioFile has been returned without /cam (encoding
\* yuv422) and without /cam2 (one byte too many); frame 0 is cached with the
\* mono8 image of /cam and without /cam2.
C27_Witness ==
    /\ LoadDone
    /\ LoadedFile = OtherScenarioFile
    /\ displayedFrame # <<>>
    /\ displayedFrame[1].index = 1
    /\ DOMAIN displayedFrame[1].images = {}
    /\ DOMAIN frameImageIndex[1] = {"/cam", "/cam2"}
    /\ \E n \in 1..Len(frameCache) :
          /\ frameCache[n].frame.index = 0
          /\ DOMAIN frameCache[n].frame.images = {"/cam"}

(***************************************************************************)
(* Depth specification: one loadFile of a file whose /depth topic carries  *)
(* a 16UC1 image of three pixels drawn from the byte values below, then a  *)
(* fixed second image, and getFrameAt calls that decode them.              *)
(***************************************************************************)
LowBytes == {0, 1, 255}

HighBytes == {0, 1}

\* A 3 x 1 depth image of the given bytes.
DepthImage(bytes) == SizedImage("16UC1", bytes, 3, 1, Len(bytes))

DepthImages ==
    { DepthImage(<<l1, h1, l2, h2, l3, h3>>) :
        l1 \in LowBytes, h1 \in HighBytes, l2 \in LowBytes, h2 \in HighBytes,
        l3 \in LowBytes, h3 \in HighBytes }

\* Raw values 1, 256 and 511.
SecondDepthImage == DepthImage(<<1, 0, 0, 1, 255, 1>>)

\* Frames at 0, 33 and 67 ms: the first two show image, the third the second
\* image.
DepthFile(image) ==
    BagFile(<<Conn("/depth", "sensor_msgs/Image")>>,
            <<BagMsg("/depth", Time(0, 0), image),
              BagMsg("/depth", Time(0, 40000000), SecondDepthImage),
              BagMsg("/depth", Time(0, 70000000), SecondDepthImage)>>)

DepthFiles ==
    {DepthFile(image) : image \in DepthImages} \cup {UnreadableFile, EmptyStreamFile}

\* The caller asks for the frame of the first or of the second image.
ShowDepth(c) ==
    /\ \E index \in {0, 2} :
          /\ getFrameAt(c, index)
          /\ currentFrameIndex' = IF InRange(index) THEN index ELSE currentFrameIndex
    /\ UNCHANGED <<overlaps, refused, pageVars>>

NextDepth ==
    \/ LoadCall(1, DepthFiles)
    \/ LoadStep(1)
    \/ ShowDepth(1)
    \/ \E topic \in DOMAIN calls[1].pending : LookupSettle(1, topic)
    \/ GetFinish(1)

SpecDepth == Init /\ [][NextDepth]_vars

(***************************************************************************)
(* C28: per-invocation depth normalization.  A decoded 16-bit depth image  *)
(* whose maximum exceeds its minimum has intensity 0 at the pixels with    *)
(* its own minimum and 255 at those with its own maximum; a constant image *)
(* has intensity 0 at every pixel; and the intensities depend on that      *)
(* image's pixels only: they are those of the same image decoded alone.    *)
(* Hence one raw value can have different intensities in two images.       *)
(***************************************************************************)
\* The decoded depth images held by the cache.
DecodedDepth ==
    {frameCache[n].frame.images["/depth"] :
        n \in {k \in 1..Len(frameCache) : "/depth" \in DOMAIN frameCache[k].frame.images}}

\* The 16-bit raw values of a decoded image, in pixel order.
RawValues(image) ==
    [i \in 1..(Len(image.data) \div 2) |-> image.data[2 * i - 1] + 256 * image.data[2 * i]]

\* The intensity of raw value v in an image with the given extremes, by
\* the affine map that sends low to 0 and high to 255, rounded.
Affine(v, low, high) == ((v - low) * 510 + (high - low)) \div (2 * (high - low))

C28_DepthNormalization ==
    \A image \in DecodedDepth :
        LET raw == RawValues(image)
            low == MinVal(raw)
            high == MaxVal(raw)
        IN  /\ DOMAIN image.normalized = DOMAIN raw
            /\ high > low =>
                  \A i \in DOMAIN raw :
                     /\ raw[i] = low => image.normalized[i] = 0
                     /\ raw[i] = high => image.normalized[i] = 255
                     /\ image.normalized[i] \in {Affine(raw[i], low, high),
                                                  Affine(raw[i], low, high) - 1}
            /\ high = low => \A i \in DOMAIN raw : image.normalized[i] = 0

\* Two decoded images in the cache share a raw value and their maximum but
\* not their minimum, and show that value with different intensities; the
\* minimum of the second, shown as 0, is not the raw value 0.
C28_Witness ==
    \E a \in DecodedDepth : \E b \in DecodedDepth :
        \E i \in DOMAIN RawValues(a) : \E j \in DOMAIN RawValues(b) :
            /\ RawValues(a)[i] = RawValues(b)[j]
            /\ MinVal(RawValues(a)) # MinVal(RawValues(b))
            /\ MaxVal(RawValues(a)) = MaxVal(RawValues(b))
            /\ a.normalized[i] # b.normalized[j]
            /\ MinVal(RawValues(b)) > 0

(***************************************************************************)
(* Session specification with scheduling: synchronous code runs to its end *)
(* (the frame loop of loadFile), and a lookup that can settle and a call   *)
(* whose lookups have all settled are run by the event loop whenever no    *)
(* synchronous section is in the way.                                      *)
(***************************************************************************)
SpecSessionFair ==
    /\ SpecSession
    /\ WF_vars(LoadGenFrame(1) \/ LoadFinish(1))
    /\ SF_vars(\E topic \in DOMAIN calls[1].pending : LookupSettle(1, topic))
    /\ SF_vars(GetFinish(1))

(***************************************************************************)
(* C29: getFrameAt terminates.  A call that has started the lookups of an  *)
(* in-range frame eventually resolves with that frame, given that each     *)
(* lookup settles; a lookup that fails settles like any other, in one      *)
(* step, and the lookups of the other topics and the return wait for       *)
(* nothing but each other's settling.                                      *)
(***************************************************************************)
\* Caller 1 has resolved with frame index.
ResolvedWith(index) ==
    /\ calls[1].pc = "idle"
    /\ displayedFrame # <<>>
    /\ displayedFrame[1].index = index

C29_Terminates ==
    \A index \in 0..2 :
        (calls[1].pc = "lookups" /\ calls[1].index = index) ~> ResolvedWith(index)

\* The call for frame 0 of OtherScenarioFile has resolved: the lookup of
\* /cam2 failed, that of /cam attached its image.
C29_Witness ==
    /\ LoadDone
    /\ LoadedFile = OtherScenarioFile
    /\ ResolvedWith(0)
    /\ DOMAIN displayedFrame[1].images = {"/cam"}
    /\ 0 \in DOMAIN delivered.frames
    /\ displayedFrame[1] \in delivered.frames[0]

(***************************************************************************)
(* C30: no retry, failure is cached.  A materialization starts only for a  *)
(* frame that is not cached, issues one lookup per entry of the frame's    *)
(* event-pointer map, and each of them settles once; when it resolves, its *)
(* frame enters the cache as it stands, unavailable topics included; a     *)
(* cached frame stays as it is for as long as its key is in the cache, and *)
(* a call that finds the key returns that frame and starts no lookup.      *)
(***************************************************************************)
Starts(c) == calls[c].pc = "idle" /\ calls'[c].pc = "lookups"

C30_NoRetry ==
    [][ /\ \A c \in Callers :
              /\ Starts(c) =>
                    /\ ~CacheHas(frameCache, TargetTs(calls'[c].index))
                    /\ calls'[c].pending = frameImageIndex[calls'[c].index]
                    /\ DOMAIN calls'[c].frameData[1].images = {}
              /\ (calls[c].pc = "lookups" /\ calls'[c].pc = "lookups") =>
                    /\ DOMAIN calls'[c].pending \subseteq DOMAIN calls[c].pending
                    /\ DOMAIN calls'[c].frameData[1].images \subseteq
                          DOMAIN calls[c].frameData[1].images
                             \cup ((DOMAIN calls[c].pending) \ (DOMAIN calls'[c].pending))
              /\ Resolves(c) =>
                    /\ CacheHas(frameCache', calls[c].frameData[1].timestamp)
                    /\ CacheGet(frameCache', calls[c].frameData[1].timestamp)
                          = calls[c].frameData[1]
        /\ \A n \in 1..Len(frameCache) :
              CacheHas(frameCache', frameCache[n].key) =>
                  CacheGet(frameCache', frameCache[n].key) = frameCache[n].frame
        /\ ( /\ displayedFrame' # displayedFrame
             /\ calls' = calls
             /\ CacheHas(frameCache, displayedFrame'[1].timestamp) ) =>
                  displayedFrame'[1] = CacheGet(frameCache, displayedFrame'[1].timestamp) ]_vars

\* The cache is full, frame 29 inserted last; frame 16, cached without the
\* /cam image its pointer map names, is on display: it was returned by a
\* hit after the cache had filled.
C30_Witness ==
    /\ Len(frameCache) = CacheCapacity
    /\ frameCache[Len(frameCache)].frame.index = 29
    /\ displayedFrame # <<>>
    /\ displayedFrame[1].index = 16
    /\ "/cam" \in DOMAIN frameImageIndex[16]
    /\ ExpectedImage(16, "/cam") = <<>>
    /\ "/cam" \notin DOMAIN displayedFrame[1].images
    /\ \E n \in 1..Len(frameCache) : frameCache[n].frame = displayedFrame[1]
    /\ \A c \in Callers : calls[c].pc = "idle"

(***************************************************************************)
(* Reload specification: the scenario file and a file whose frames start   *)
(* at 33 ms, the time of the scenario's second frame, are loaded one after *)
(* the other in any order, while one caller asks for frames.               *)
(***************************************************************************)
\* Bootstrap at 33 ms: frames at 33 and 66 ms.
LateScenarioFile ==
    BagFile(<<Conn("/joint", "sensor_msgs/JointState"), Conn("/cam", "sensor_msgs/Image")>>,
            <<BagMsg("/joint", Time(0, 33000000), JointState(<<"x", "y", "z">>, <<3, 3, 3>>)),
              BagMsg("/cam", Time(0, 33000000), RawImage("rgb8", 33)),
              BagMsg("/joint", Time(0, 70000000), JointState(<<"x", "y", "z">>, <<7, 7, 7>>))>>)

ReloadFiles == {ScenarioFile, LateScenarioFile, UnreadableFile, EmptyStreamFile}

NextReload ==
    \/ LoadCall(1, ReloadFiles)
    \/ Reload(1, ReloadFiles)
    \/ LoadStep(1)
    \/ Probe(1)
    \/ \E topic \in DOMAIN calls[1].pending : LookupSettle(1, topic)
    \/ GetFinish(1)

SpecReload == Init /\ [][NextReload]_vars

(***************************************************************************)
(* C31: unique cache keys.  After a successful load the frame timestamps   *)
(* are strictly increasing and lie between the bootstrap time and the time *)
(* of the last message, so no two frame indices share a cache key, and a   *)
(* cache entry found under the timestamp of index i holds the frame whose  *)
(* index is i.                                                             *)
(***************************************************************************)
\* The timestamps part of C31.
StrictlyIncreasing ==
    /\ \A i \in 1..(Len(timestamps) - 1) : timestamps[i] < timestamps[i + 1]
    /\ \A i \in 1..Len(timestamps) :
          BootstrapMs(LoadedFile) <= timestamps[i] /\ timestamps[i] <= LastMs(LoadedFile)

C31_UniqueCacheKeys ==
    LoadDone =>
        /\ StrictlyIncreasing
        /\ \A i \in FrameIdxs :
              CacheHas(frameCache, TargetTs(i)) => CacheGet(frameCache, TargetTs(i)).index = i

\* The timestamps part alone, which holds after every load.
C31_TimestampsOnly == LoadDone => StrictlyIncreasing

(***************************************************************************)
(* C32: overlapping loads do not mix.  Once two loadFile calls on the same *)
(* BagService have both resolved, the open source is one of the two files  *)
(* and the frame times, the frames' state snapshots and event-pointer      *)
(* maps, and the topic lists are those of a lone load of that file.        *)
(***************************************************************************)
\* The frame times of a lone load of file.
LoneTimestamps(file) ==
    [k \in 1..(((LastMs(file) - BootstrapMs(file)) * 100) \div NominalStep100 + 1) |->
        MathRound(BootstrapMs(file) * 100 + (k - 1) * NominalStep100, 100)]

\* The service holds what a lone load of file leaves: the source, the topic
\* lists, the frame times, and per frame a snapshot of the state topics and
\* pointers to messages of the event topics.
HoldsLoneLoadOf(file) ==
    /\ bag # <<>> /\ bag[1].opened
    /\ bag[1].conns = file.conns /\ bag[1].msgs = file.msgs
    /\ timestamps = LoneTimestamps(file)
    /\ Len(imageTopics) = Cardinality(ImageSet(file)) /\ Range(imageTopics) = ImageSet(file)
    /\ Len(jointTopics) = Cardinality(JointSet(file)) /\ Range(jointTopics) = JointSet(file)
    /\ DOMAIN topicMetadata = TargetSet(file)
    /\ DOMAIN historicalJointData = FrameIdxs
    /\ DOMAIN frameImageIndex = FrameIdxs
    /\ \A i \in FrameIdxs :
          /\ DOMAIN historicalJointData[i] = JointSet(file)
          /\ DOMAIN frameImageIndex[i] = ImageSet(file)

C32_OverlappingLoadsDoNotMix ==
    (ld[1].pc = "done" /\ ld[2].pc = "done") =>
        HoldsLoneLoadOf(ld[1].file[1]) \/ HoldsLoneLoadOf(ld[2].file[1])

(***************************************************************************)
(* C33: a frame request never sees a half-built index.  Whenever a         *)
(* getFrameAt call can be made and finds frames, the frame index is that   *)
(* of a finished load, complete: the frame times of the whole file and a   *)
(* state snapshot and an event-pointer map for each.  No call starts its   *)
(* lookups or returns a frame while a load has recorded only part of its   *)
(* frames, and after the reset of a running load calls return null.        *)
(***************************************************************************)
\* Loader 1 is between two frames of its frame loop.
HalfBuilt == ld[1].pc = "frames"

\* loadFile is running.
LoadRunning == ld[1].pc \in {"init", "open", "read", "frames"}

CompleteIndex ==
    /\ \E file \in {ScenarioFile, LateScenarioFile} : timestamps = LoneTimestamps(file)
    /\ DOMAIN historicalJointData = FrameIdxs
    /\ DOMAIN frameImageIndex = FrameIdxs

C33_NoHalfBuiltIndex ==
    [][ ld' = ld =>
          /\ (Starts(1) \/ delivered' # delivered \/ displayedFrame' # displayedFrame) =>
                /\ ~HalfBuilt
                /\ (calls' = calls \/ Starts(1)) => CompleteIndex
          /\ (LoadRunning /\ refused' # refused) =>
                UNCHANGED <<calls, delivered, displayedFrame, frameCache>> ]_vars

\* While the messages of a reload are being read, a call made after the
\* reset has returned null for index 0; the frame on display is one that
\* a call returned from the previous, complete index.
C33_Witness ==
    /\ ld[1].pc = "read"
    /\ 0 \in refused
    /\ displayedFrame # <<>>

(***************************************************************************)
(* C34: subtasks partition the timeline.  With a file of N frames loaded   *)
(* and no load running, after any splits and merges the subtask list is    *)
(* ordered, its first subtask starts at 0, its last ends at N-1, every     *)
(* subtask has start <= end, and each subtask starts one frame after the   *)
(* previous one ends.                                                      *)
(***************************************************************************)
Partition(list, n) ==
    /\ list # <<>>
    /\ list[1].start = 0
    /\ list[Len(list)].end = n - 1
    /\ \A i \in DOMAIN list : list[i].start <= list[i].end
    /\ \A i \in 1..(Len(list) - 1) : list[i + 1].start = list[i].end + 1

MIN_CONTACT_FRAMES == 5

MaxContacts == 1  \* contacts on the track together

Min(a, b) == IF a <= b THEN a ELSE b

Max(a, b) == IF a >= b THEN a ELSE b

\* A ContactAnnotation (lines 34-39).
ContactAnnotation(id, start, end) ==
    [id |-> id, username |-> "local", start |-> start, end |-> end]

\* finishContactCreation (lines 369-377).
finishContactCreation(endIndex) ==
    IF pendingContactStart = <<>>
    THEN UNCHANGED <<contacts, pendingContactStart>>
    ELSE LET start == Min(pendingContactStart[1], endIndex)
             end == Max(pendingContactStart[1], endIndex)
             finalEnd == IF end - start < MIN_CONTACT_FRAMES
                         THEN Min(Len(pageTimestamps) - 1, start + MIN_CONTACT_FRAMES)
                         ELSE end
         IN  /\ contacts' = Append(contacts,
                     ContactAnnotation(generateUniqueId(IdsInUse(subtasks, contacts)),
                                       start, finalEnd))
             /\ pendingContactStart' = <<>>

\* The pointer is over the timeline at frame index: the mouse move that
\* brought it there has set hoveredFrame (lines 482-490).
PointerOver(index) ==
    /\ InputArrives
    /\ isFileLoaded
    /\ Len(pageTimestamps) > 0
    /\ index \in 0..(Len(pageTimestamps) - 1)
    /\ hoveredFrame' = <<index>>

\* handleContactTrackContextMenu (lines 379-388): a right-click on the
\* contact track with the pointer over frame index.
handleContactTrackContextMenu(index) ==
    /\ PointerOver(index)
    /\ Len(contacts) < MaxContacts
    /\ IF pendingContactStart = <<>>
       THEN pendingContactStart' = <<index>> /\ contacts' = contacts
       ELSE finishContactCreation(index)
    /\ uiEvent' = "other"
    /\ NoFetch
    /\ UNCHANGED <<currentFrameIndex, overlaps, refused, isFileLoaded, isLoadingBag,
                   pageTimestamps, isPlaying, subtasks, selectedSubtaskId,
                   selectedContactId, draggingState>>

\* The contact blocks are drawn from start to end + 1 frame widths (lines
\* 912-913) and take the clicks that fall on them (lines 921-924): the
\* track itself receives a click at index unless a block covers the whole
\* half frame either side of it.
OnContactBlock(index) ==
    \E i \in DOMAIN contacts : contacts[i].start < index /\ index <= contacts[i].end

\* handleContactTrackClick (lines 390-398): a click on the contact track
\* with the pointer over frame index, and the effect that follows.
handleContactTrackClick(index) ==
    /\ PointerOver(index)
    /\ ~OnContactBlock(index)
    /\ IF pendingContactStart # <<>>
       THEN /\ Len(contacts) < MaxContacts
            /\ finishContactCreation(index)
            /\ NoFetch
            /\ UNCHANGED <<currentFrameIndex, isPlaying, selectedSubtaskId,
                           selectedContactId>>
       ELSE /\ currentFrameIndex' = index
            /\ isPlaying' = FALSE
            /\ selectedSubtaskId' = FindIdAt(subtasks, index)
            /\ selectedContactId' = <<>>
            /\ SeekEffect
            /\ UNCHANGED <<contacts, pendingContactStart>>
    /\ uiEvent' = "other"
    /\ UNCHANGED <<overlaps, refused, isFileLoaded, isLoadingBag, pageTimestamps, subtasks,
                   draggingState>>

\* handleMouseDownOnHandle (lines 418-421) on an edge of contact i.
handleMouseDownOnHandle(i, edge) ==
    /\ InputArrives
    /\ isFileLoaded
    /\ i \in DOMAIN contacts
    /\ draggingState' = <<[type |-> "contact", id |-> contacts[i].id, edge |-> edge]>>
    /\ uiEvent' = "other"
    /\ NoFetch
    /\ UNCHANGED <<currentFrameIndex, overlaps, refused, isFileLoaded, isLoadingBag,
                   pageTimestamps, isPlaying, subtasks, contacts, selectedSubtaskId,
                   selectedContactId, hoveredFrame, pendingContactStart>>

\* The contact c after the dragged edge has followed the pointer to
\* clampedIndex (lines 434-441).
Dragged(c, edge, clampedIndex) ==
    IF edge = "start"
    THEN [c EXCEPT !.start = Min(clampedIndex, c.end - MIN_CONTACT_FRAMES)]
    ELSE [c EXCEPT !.end = Max(clampedIndex, c.start + MIN_CONTACT_FRAMES)]

\* handleGlobalMouseMove (lines 425-444) during a drag; clampedIndex is the
\* pointer's frame clamped to the timeline (line 430).
handleGlobalMouseMove(clampedIndex) ==
    /\ InputArrives
    /\ draggingState # <<>>
    /\ Len(pageTimestamps) > 0
    /\ clampedIndex \in 0..(Len(pageTimestamps) - 1)
    /\ contacts' = [i \in DOMAIN contacts |->
                       IF contacts[i].id # draggingState[1].id THEN contacts[i]
                       ELSE Dragged(contacts[i], draggingState[1].edge, clampedIndex)]
    /\ uiEvent' = "other"
    /\ NoFetch
    /\ UNCHANGED <<currentFrameIndex, overlaps, refused, isFileLoaded, isLoadingBag,
                   pageTimestamps, isPlaying, subtasks, selectedSubtaskId,
                   selectedContactId, hoveredFrame, contactVars>>

\* handleGlobalMouseUp (lines 446-448).
handleGlobalMouseUp ==
    /\ InputArrives
    /\ draggingState # <<>>
    /\ draggingState' = <<>>
    /\ uiEvent' = "other"
    /\ NoFetch
    /\ UNCHANGED <<currentFrameIndex, overlaps, refused, isFileLoaded, isLoadingBag,
                   pageTimestamps, isPlaying, subtasks, contacts, selectedSubtaskId,
                   selectedContactId, hoveredFrame, pendingContactStart>>

\* Eight frames (0 to 233 ms) of one state topic.
EightFrameFile ==
    BagFile(<<Conn("/joint", "sensor_msgs/JointState")>>,
            <<BagMsg("/joint", Time(0, 0), JointState(<<>>, <<0>>)),
              BagMsg("/joint", Time(0, 240000000), JointState(<<>>, <<1>>))>>)

ContactFiles == {EightFrameFile, FourFrameFile}

\* The frames the pointer may be over on the contact track.
ContactPointerFrames == {0, 2, 6, 7}

\* Contact session: the user creates, selects, resizes and deletes contacts.
NextContacts ==
    \/ PageLoad(ContactFiles)
    \/ \E index \in ContactPointerFrames : handleContactTrackContextMenu(index)
    \/ \E index \in ContactPointerFrames : handleContactTrackClick(index)
    \/ \E index \in ContactPointerFrames : handleTimelineClick(index)
    \/ \E i \in 1..MaxContacts, edge \in {"start", "end"} : handleMouseDownOnHandle(i, edge)
    \/ \E clampedIndex \in ContactPointerFrames : handleGlobalMouseMove(clampedIndex)
    \/ handleGlobalMouseUp
    \/ \E key \in {"Delete"} : handleKeyDown(key)

SpecContacts == Init /\ [][NextContacts]_vars

(***************************************************************************)
(* C35: selection validity.  selectedSubtaskId is null or the id of a      *)
(* subtask in the list, and selectedContactId is null or the id of a       *)
(* contact in the list.                                                    *)
(***************************************************************************)
SelectionIn(selected, list) ==
    selected = <<>> \/ \E i \in DOMAIN list : list[i].id = selected[1]

C35_SelectionValid ==
    /\ SelectionIn(selectedSubtaskId, subtasks)
    /\ SelectionIn(selectedContactId, contacts)

(***************************************************************************)
(* C36: contacts stay on the timeline.  With N frames loaded, every        *)
(* contact on the list satisfies 0 <= start <= end <= N - 1.               *)
(***************************************************************************)
OnTimeline(c) ==
    0 <= c.start /\ c.start <= c.end /\ c.end <= Len(pageTimestamps) - 1

C36_ContactsOnTimeline ==
    isFileLoaded => \A i \in DOMAIN contacts : OnTimeline(contacts[i])

(***************************************************************************)
(* C37: minimum contact length.  Every contact on the list spans at least  *)
(* MIN_CONTACT_FRAMES frames: end - start >= 5.                            *)
(***************************************************************************)
C37_MinimumContactLength ==
    \A i \in DOMAIN contacts : contacts[i].end - contacts[i].start >= MIN_CONTACT_FRAMES

(***************************************************************************)
(* Reload of the page with a bag whose first frame has images: the         *)
(* getFrameAt(0) of line 186 suspends on the image lookups, and the page   *)
(* renders the state set before it (lines 136-184) while it waits.         *)
(***************************************************************************)
\* The call of line 186 (the page's other calls are fetchFrame's, caller 1).
LoadCaller == 2

FirstFrameHasImages == 0 \in DOMAIN frameImageIndex /\ DOMAIN frameImageIndex[0] # {}

\* loadBagFile is at line 136 with a bag whose first frame has images.
AtFirstFrame == isLoadingBag /\ ld[1].pc = "done" /\ FirstFrameHasImages

\* loadFile resolved: lines 136-186, up to `await bagService.getFrameAt(0)`.
loadBagFileLoaded ==
    /\ AtFirstFrame
    /\ calls[LoadCaller].pc = "idle"
    /\ pageTimestamps' = timestamps
    /\ getFrameAt(LoadCaller, 0)
    /\ UNCHANGED <<currentFrameIndex, overlaps, refused, isFileLoaded, isLoadingBag,
                   isPlaying, subtasks, contacts, selectedSubtaskId, selectedContactId,
                   hoveredFrame, contactVars, uiEvent>>

\* getFrameAt(0) returned (lines 1262-1268): the rest of the try block and
\* finally (lines 187-206).
loadBagFileResumed ==
    /\ AtFirstFrame
    /\ NoSyncSection
    /\ calls[LoadCaller].pc = "lookups"
    /\ AllSettled(calls[LoadCaller])
    /\ LET frameData == calls[LoadCaller].frameData[1]
       IN  /\ frameCache' = CacheEvict(CacheSet(frameCache, frameData.timestamp, frameData))
           /\ delivered' = Deliver(calls[LoadCaller].index, frameData, TRUE)
           /\ displayedFrame' = <<frameData>>
           /\ calls' = [calls EXCEPT ![LoadCaller] = IdleCall]
    /\ currentFrameIndex' = 0
    /\ subtasks' = <<SubtaskAnnotation(generateUniqueId(IdsInUse(subtasks, contacts)),
                                       0, Len(timestamps) - 1, <<>>, "")>>
    /\ isFileLoaded' = TRUE
    /\ isLoadingBag' = FALSE
    /\ UNCHANGED <<bag, cv, timestamps, topicMetadata, historicalJointData, imageTopics,
                   jointTopics, frameImageIndex, ld, overlaps, refused, console,
                   pageTimestamps, isPlaying, contacts, selectedSubtaskId,
                   selectedContactId, hoveredFrame, contactVars, uiEvent>>

PageReloadFiles == {EightFrameFile, ScenarioFile, UnreadableFile}

\* The frames the pointer may be over in the reload session.
ReloadPointerFrames == {0, 1, 7}

\* Reload session: bags with and without images are dropped on the page
\* while the user plays and seeks.
NextPageReload ==
    \/ PageLoad(PageReloadFiles) /\ ~AtFirstFrame
    \/ loadBagFileLoaded
    \/ \E c \in {1, LoadCaller}, topic \in {"/cam"} : LookupSettle(c, topic)
    \/ loadBagFileResumed
    \/ GetFinish(1)
    \/ loadBagFileRejected
    \/ PlayButtonClick
    \/ PlaybackTick
    \/ \E index \in ReloadPointerFrames : handleTimelineClick(index)

SpecPageReload == Init /\ [][NextPageReload]_vars

(***************************************************************************)
(* C38: playback stays in range and stops at the end.  With N >= 1 frames  *)
(* loaded, 0 <= currentFrameIndex <= N - 1; a playback tick at index N - 1 *)
(* leaves the index and sets isPlaying to false; uninterrupted playback    *)
(* eventually reaches N - 1 and stops.                                     *)
(***************************************************************************)
C38_IndexInRange ==
    Len(pageTimestamps) >= 1 =>
        0 <= currentFrameIndex /\ currentFrameIndex <= Len(pageTimestamps) - 1

\* The second part of C38, alone: a playback tick at the last frame
\* leaves the index and stops playback.
C38_TickAtEndStops ==
    [][PlaybackTick /\ currentFrameIndex = Len(pageTimestamps) - 1
           => currentFrameIndex' = currentFrameIndex /\ ~isPlaying']_vars

\* Uninterrupted playback: while isPlaying holds the user does nothing;
\* the interval ticks and a load already under way goes on.
NextUninterrupted ==
    IF isPlaying
    THEN \/ PlaybackTick
         \/ LoadStep(1) /\ isLoadingBag
         \/ loadBagFileResolved
         \/ loadBagFileRejected
    ELSE NextPlayback

\* The interval fires every 33 ms while it is set (line 275), and a load
\* under way settles.
SpecUninterrupted ==
    /\ Init
    /\ [][NextUninterrupted]_vars
    /\ WF_vars(PlaybackTick)
    /\ WF_vars((LoadStep(1) /\ isLoadingBag) \/ loadBagFileResolved \/ loadBagFileRejected)

\* The third part of C38, alone: uninterrupted playback reaches the last
\* frame and stops.
C38_PlaybackReachesEnd ==
    isPlaying ~> (~isPlaying /\ currentFrameIndex = Len(pageTimestamps) - 1)

====
